---- MODULE Spec2Model ----
(***************************************************************************)
(* A model of the Long toolchain: the block/file store and the tree-walking *)
(* interpreter of longi.py, and the bytecode compiler of longc.py.          *)
(*                                                                          *)
(* Text is modelled as a sequence of one-character strings, so that length, *)
(* slicing, concatenation and decimal formatting are computed as the code   *)
(* computes them.  The timestamps of file entries (created, modified, ts)   *)
(* are read from the wall clock; the clock of the model advances by one per *)
(* store statement.                                                         *)
(***************************************************************************)
EXTENDS Integers, Sequences, FiniteSets, TLC

\* ------------------------------------------------------------------------
\* Bounds of the model
\* ------------------------------------------------------------------------
\* number of store statements executed in one run
MaxOps == 3

\* ------------------------------------------------------------------------
\* Program constants
\* ------------------------------------------------------------------------
DefaultBlockSize == 4096
FirstBlockId == 1

VARIABLES
    fs_loaded,      \* fs_state is not None
    fs_state,       \* the in-memory store (meaningful once fs_loaded)
    disk_exists,    \* build/lush_fs.json exists
    disk,           \* the document stored in build/lush_fs.json
    variables,      \* the interpreter's variable map
    nops,           \* number of store statements executed so far
    last_op,        \* history: the store statement executed last
    alloc_log,      \* history: ids returned by fs_alloc_block, in order
    write_log,      \* history: per path, what each FS[Write] did
    source,         \* the loaded program: main stream and functions map
    program_lines,  \* the line list being executed
    current_line,   \* index into program_lines
    functions,      \* function name -> body lines
    labels,         \* label name -> index into the main stream
    stack,          \* the active run_program / handle_call / handle_loop calls
    status,         \* idle, running, unwinding, done, exit
    restored,       \* a handle_call has just restored the caller's context
    executed,       \* history: positions whose line was given to execute_line
    ifres,          \* history: position of an executed If -> result of handle_if
    last,           \* history: the step taken last
    sites,          \* history: line list and index at each active call
    site,           \* history: line list and index at the call left last
    hardware_log,   \* the texts appended to build/hardware_output.log
    c_source,       \* the lines and functions map given to compile_long_to_vm
    c_unit,         \* the stream being compiled: 0 main, k the k-th function
    c_pos,          \* index of the next line of that stream
    c_marks,        \* history: len(ops) when each line taken so far was taken
    c_units,        \* history: len(ops) when each compile_lines call so far returned
    c_status,       \* idle, compiling, returned, error, built
    ops,            \* the op stream emitted so far
    label_positions,\* label -> index into ops
    strings,        \* text -> string label
    string_order,   \* the texts in the order they were added
    variables_map,  \* variable name -> slot
    if_stack,       \* the Ifs that are open
    loop_stack,     \* the labels of the loops that are open
    if_counter,
    loop_counter,
    asm_labels,     \* the labels build_vm_program_asm placed in the listing
    asm_refs,       \* the label operands it wrote
    raw_lines,      \* the lines of the source file given to the loaders
    load,           \* load_program: position, in_function, current_func, status
    written,        \* the file the filtered main stream was written back to
    first_load,     \* history: what the first load_program produced
    parse,          \* parse_long_source: its position, flags and results
    boot,           \* compile_to_boot_sector: its position, what it measured, the
                    \* output file and the process exit status
    save,           \* fs_save as a sequence of writes: its position, what the file
                    \* holds of the document, and whether the process was killed
    applied,        \* history: the last call of handle_if or substitute_variables,
                    \* its arguments and its result
    cinterp         \* the interpreter of longc.py: its lines, current_line, the
                    \* call in progress and what it executed

store_vars == <<fs_loaded, fs_state, disk_exists, disk, nops, last_op, alloc_log, write_log>>

run_vars == <<source, program_lines, current_line, functions, labels, stack, status, restored,
              executed, ifres, last, sites, site, hardware_log>>

comp_vars == <<c_source, c_unit, c_pos, c_marks, c_units, c_status, ops, label_positions, strings, string_order,
               variables_map, if_stack, loop_stack, if_counter, loop_counter, asm_labels, asm_refs>>

load_vars == <<raw_lines, load, written, first_load, parse>>

boot_vars == <<boot>>

save_vars == <<save>>

aux_vars == <<applied, cinterp>>

vars == <<store_vars, variables, run_vars, comp_vars, load_vars, boot_vars, save_vars, aux_vars>>

\* ------------------------------------------------------------------------
\* Text helpers
\* ------------------------------------------------------------------------
Min(a, b) == IF a < b THEN a ELSE b

Digits == <<"0", "1", "2", "3", "4", "5", "6", "7", "8", "9">>

\* str(n) for a non-negative integer
RECURSIVE Str(_)
Str(n) == IF n < 10 THEN <<Digits[n + 1]>> ELSE Str(n \div 10) \o <<Digits[(n % 10) + 1]>>

DigitVal(c) == CHOOSE d \in 0..9 : Digits[d + 1] = c

IsDigit(c) == \E d \in 0..9 : Digits[d + 1] = c

\* int(s) for a string of decimal digits
RECURSIVE ToInt(_)
ToInt(s) == IF Len(s) = 0 THEN 0 ELSE ToInt(SubSeq(s, 1, Len(s) - 1)) * 10 + DigitVal(s[Len(s)])

\* s[i:j] with 0-based, end-exclusive Python indices, clipped to the text
Slice(s, i, j) == SubSeq(s, i + 1, Min(j, Len(s)))

\* s.strip() where the only whitespace character of the model is " "
RECURSIVE LStrip(_)
LStrip(s) == IF Len(s) > 0 /\ s[1] = " " THEN LStrip(Tail(s)) ELSE s

RECURSIVE RStrip(_)
RStrip(s) == IF Len(s) > 0 /\ s[Len(s)] = " " THEN RStrip(SubSeq(s, 1, Len(s) - 1)) ELSE s

Strip(s) == RStrip(LStrip(s))

HasDoubleSlash(s) == \E i \in 1..(Len(s) - 1) : s[i] = "/" /\ s[i + 1] = "/"

\* s.replace("//", "/"): non-overlapping occurrences, left to right
RECURSIVE ReplaceDoubleSlash(_)
ReplaceDoubleSlash(s) ==
    IF Len(s) < 2 THEN s
    ELSE IF s[1] = "/" /\ s[2] = "/" THEN <<"/">> \o ReplaceDoubleSlash(SubSeq(s, 3, Len(s)))
    ELSE <<s[1]>> \o ReplaceDoubleSlash(Tail(s))

RECURSIVE CollapseSlashes(_)
CollapseSlashes(s) == IF HasDoubleSlash(s) THEN CollapseSlashes(ReplaceDoubleSlash(s)) ELSE s

\* fs_normalize_path with one replace in place of the while loop
fs_normalize_path_once(path) ==
    LET p == Strip(path)
    IN  IF Len(p) = 0 THEN <<"/">>
        ELSE ReplaceDoubleSlash(IF p[1] # "/" THEN <<"/">> \o p ELSE p)

fs_normalize_path(path) ==
    LET p == Strip(path)
    IN  IF Len(p) = 0 THEN <<"/">>
        ELSE CollapseSlashes(IF p[1] # "/" THEN <<"/">> \o p ELSE p)

\* dict assignment d[k] = v
Put(d, k, v) == [x \in (DOMAIN d) \cup {k} |-> IF x = k THEN v ELSE d[x]]

\* ------------------------------------------------------------------------
\* The block/file store (longi.py)
\* ------------------------------------------------------------------------
EmptyMap == [x \in {} |-> <<>>]

fs_default_state ==
    [block_size |-> DefaultBlockSize,
     next_block_id |-> FirstBlockId,
     blocks |-> EmptyMap,
     files |-> EmptyMap]

\* the store a statement works on: fs_load() keeps a loaded store, else
\* reads the document on disk, else starts from the default store
fs_load ==
    IF fs_loaded THEN fs_state
    ELSE IF disk_exists THEN disk
    ELSE fs_default_state

\* fs_alloc_block that hands out an id without registering the block
fs_alloc_block_unregistered(fs) ==
    [fs |-> [fs EXCEPT !.next_block_id = fs.next_block_id + 1],
     id |-> Str(fs.next_block_id)]

\* fs_alloc_block that does not advance next_block_id
fs_alloc_block_reuse(fs) ==
    [fs |-> [fs EXCEPT !.blocks = Put(fs.blocks, Str(fs.next_block_id), <<>>)],
     id |-> Str(fs.next_block_id)]

\* fs_alloc_block on store fs: the new store and the id it returns
fs_alloc_block(fs) ==
    LET block_id == fs.next_block_id
    IN  [fs |-> [fs EXCEPT !.next_block_id = block_id + 1,
                           !.blocks = Put(fs.blocks, Str(block_id), <<>>)],
         id |-> Str(block_id)]

\* fs_write_block that stores the whole content
fs_write_block_whole(fs, block_id, content) ==
    IF block_id \notin DOMAIN fs.blocks
    THEN [fs |-> fs, ok |-> FALSE]
    ELSE [fs |-> [fs EXCEPT !.blocks = Put(fs.blocks, block_id, content)], ok |-> TRUE]

\* fs_write_block that registers a block it does not find
fs_write_block_registers(fs, block_id, content) ==
    [fs |-> [fs EXCEPT !.blocks = Put(fs.blocks, block_id, Slice(content, 0, fs.block_size))],
     ok |-> block_id \in DOMAIN fs.blocks]

\* fs_write_block: ok is the value it returns
fs_write_block(fs, block_id, content) ==
    IF block_id \notin DOMAIN fs.blocks
    THEN [fs |-> fs, ok |-> FALSE]
    ELSE [fs |-> [fs EXCEPT !.blocks = Put(fs.blocks, block_id, Slice(content, 0, fs.block_size))],
          ok |-> TRUE]

fs_read_block(fs, block_id) ==
    IF block_id \notin DOMAIN fs.blocks THEN <<>> ELSE fs.blocks[block_id]

DefaultMeta ==
    [role |-> <<"d", "o", "c">>,
     ui |-> <<"n", "o", "n", "e">>,
     run |-> <<"f", "g">>,
     backup |-> <<"v", "e", "r", "s", "i", "o", "n", "e", "d">>]

MetaOf(meta, key) == IF key \in DOMAIN meta THEN meta[key] ELSE DefaultMeta[key]

\* time.time() during the current store statement
Now == nops + 1

\* fs_create_file that leaves the defaults as they are
fs_create_file_defaults(fs, path, meta) ==
    [fs EXCEPT !.files = Put(fs.files, path,
        [blocks |-> <<>>,
         size |-> 0,
         role |-> DefaultMeta.role,
         ui |-> DefaultMeta.ui,
         run |-> DefaultMeta.run,
         backup |-> DefaultMeta.backup,
         versions |-> <<>>,
         created |-> Now,
         modified |-> Now])]

fs_create_file(fs, path, meta) ==
    [fs EXCEPT !.files = Put(fs.files, path,
        [blocks |-> <<>>,
         size |-> 0,
         role |-> MetaOf(meta, "role"),
         ui |-> MetaOf(meta, "ui"),
         run |-> MetaOf(meta, "run"),
         backup |-> MetaOf(meta, "backup"),
         versions |-> <<>>,
         created |-> Now,
         modified |-> Now])]

\* a chunk loop that advances one character too far per chunk
RECURSIVE WriteChunks_stride(_, _, _, _)
WriteChunks_stride(fs, content, i, blocks) ==
    IF i >= Len(content) THEN [fs |-> fs, blocks |-> blocks]
    ELSE LET chunk == Slice(content, i, i + fs.block_size)
             a == fs_alloc_block(fs)
             w == fs_write_block(a.fs, a.id, chunk)
         IN  WriteChunks_stride(w.fs, content, i + fs.block_size + 1, Append(blocks, a.id))

\* the chunk loop of fs_write_file from offset i on: the store and the ids
RECURSIVE WriteChunks(_, _, _, _)
WriteChunks(fs, content, i, blocks) ==
    IF i >= Len(content) THEN [fs |-> fs, blocks |-> blocks]
    ELSE LET chunk == Slice(content, i, i + fs.block_size)
             a == fs_alloc_block(fs)
             w == fs_write_block(a.fs, a.id, chunk)
         IN  WriteChunks(w.fs, content, i + fs.block_size, Append(blocks, a.id))

\* fs_write_file that snapshots the new size instead of the previous one
fs_write_file_newsize(fs, path, content) ==
    LET fs1 == IF path \in DOMAIN fs.files THEN fs ELSE fs_create_file(fs, path, EmptyMap)
        entry == fs1.files[path]
        versions == IF Len(entry.blocks) > 0
                    THEN Append(entry.versions, [blocks |-> entry.blocks, size |-> Len(content), ts |-> Now])
                    ELSE entry.versions
        r == WriteChunks(fs1, content, 0, <<>>)
    IN  [r.fs EXCEPT !.files[path] =
            [entry EXCEPT !.versions = versions, !.blocks = r.blocks, !.size = Len(content),
                          !.modified = Now]]

\* fs_write_file that snapshots whenever the file existed before the write
fs_write_file_always(fs, path, content) ==
    LET fs1 == IF path \in DOMAIN fs.files THEN fs ELSE fs_create_file(fs, path, EmptyMap)
        entry == fs1.files[path]
        versions == IF path \in DOMAIN fs.files
                    THEN Append(entry.versions, [blocks |-> entry.blocks, size |-> entry.size, ts |-> Now])
                    ELSE entry.versions
        r == WriteChunks(fs1, content, 0, <<>>)
    IN  [r.fs EXCEPT !.files[path] =
            [entry EXCEPT !.versions = versions, !.blocks = r.blocks, !.size = Len(content),
                          !.modified = Now]]

fs_write_file(fs, path, content) ==
    LET fs1 == IF path \in DOMAIN fs.files THEN fs ELSE fs_create_file(fs, path, EmptyMap)
        entry == fs1.files[path]
        versions == IF Len(entry.blocks) > 0
                    THEN Append(entry.versions, [blocks |-> entry.blocks, size |-> entry.size, ts |-> Now])
                    ELSE entry.versions
        r == WriteChunks(fs1, content, 0, <<>>)
    IN  [r.fs EXCEPT !.files[path] =
            [entry EXCEPT !.versions = versions, !.blocks = r.blocks, !.size = Len(content),
                          !.modified = Now]]

RECURSIVE ConcatBlocks(_, _)
ConcatBlocks(fs, ids) ==
    IF Len(ids) = 0 THEN <<>>
    ELSE fs_read_block(fs, Head(ids)) \o ConcatBlocks(fs, Tail(ids))

\* fs_read_file that returns the first block only
fs_read_file_first_block(fs, path) ==
    IF path \notin DOMAIN fs.files THEN <<>>
    ELSE IF Len(fs.files[path].blocks) = 0 THEN <<>>
    ELSE fs_read_block(fs, Head(fs.files[path].blocks))

fs_read_file(fs, path) ==
    IF path \notin DOMAIN fs.files THEN <<>> ELSE ConcatBlocks(fs, fs.files[path].blocks)

fs_set_role(fs, path, role) ==
    IF path \notin DOMAIN fs.files THEN [fs |-> fs, ok |-> FALSE]
    ELSE [fs |-> [fs EXCEPT !.files[path].role = role,
                       !.files[path].modified = Now], ok |-> TRUE]

\* fs_tran that leaves the run field as it was
fs_tran_role_only(fs, path) ==
    IF path \notin DOMAIN fs.files THEN [fs |-> fs, ok |-> FALSE]
    ELSE [fs |-> [fs EXCEPT !.files[path].role = <<"T", "r", "a", "n">>,
                       !.files[path].modified = Now], ok |-> TRUE]

fs_tran(fs, path) ==
    IF path \notin DOMAIN fs.files THEN [fs |-> fs, ok |-> FALSE]
    ELSE [fs |-> [fs EXCEPT !.files[path].role = <<"T", "r", "a", "n">>,
                       !.files[path].run = <<"b", "g">>,
                       !.files[path].modified = Now], ok |-> TRUE]

\* ------------------------------------------------------------------------
\* Inputs of the store statements
\* ------------------------------------------------------------------------
\* a text of n characters whose chunks differ from one another
Text(n) == [i \in 1..n |-> IF i % 3 = 1 THEN "a" ELSE IF i % 3 = 2 THEN "b" ELSE "c"]

\* no content, one whole block, one whole block and one character more
Contents == {<<>>, Text(DefaultBlockSize), Text(DefaultBlockSize + 1)}

\* values of path tokens, before normalisation
PathTokens == {<<"a">>, <<" ", "/", "/", "b">>}

\* values of block id tokens
IdTokens == {<<"1">>, <<"2">>}

\* results of fs_parse_meta
Metas == {EmptyMap, [x \in {"role"} |-> <<"a", "p", "p">>]}

Roles == {<<"a", "p", "p">>}

NoOp == [op |-> "none", path |-> <<>>, id |-> <<>>, content |-> <<>>, meta |-> EmptyMap,
         ok |-> TRUE]

\* ids allocated between store before and store after, in order
NewIds(before, after) == [i \in 1..(after.next_block_id - before.next_block_id) |-> Str(before.next_block_id + i - 1)]

LogOf(path) == IF path \in DOMAIN write_log THEN write_log[path] ELSE <<>>

\* ------------------------------------------------------------------------
\* Store statements: handle_block_command and handle_fs_command
\* ------------------------------------------------------------------------
NotSaved == UNCHANGED <<disk_exists, disk>>

\* a statement that returns without the call of fs_save
Saved_skipped(fs) == NotSaved

\* fs_save(): the whole document is written to build/lush_fs.json
Saved(fs) == /\ disk_exists' = TRUE
             /\ disk' = fs

BlockAlloc ==
    /\ nops < MaxOps
    /\ LET a == fs_alloc_block(fs_load)
       IN  /\ fs_loaded' = TRUE
           /\ fs_state' = a.fs
           /\ variables' = Put(variables, "LASTBLOCK", a.id)
           /\ Saved(a.fs)
           /\ alloc_log' = Append(alloc_log, a.id)
           /\ last_op' = [NoOp EXCEPT !.op = "BlockAlloc", !.id = a.id]
    /\ nops' = nops + 1
    /\ UNCHANGED <<run_vars, comp_vars, load_vars, boot_vars, save_vars, aux_vars>>
    /\ UNCHANGED write_log

BlockRead(block_id) ==
    /\ nops < MaxOps
    /\ LET fs == fs_load
           content == fs_read_block(fs, block_id)
       IN  /\ fs_loaded' = TRUE
           /\ fs_state' = fs
           /\ variables' = Put(Put(variables, "LASTBLOCK", block_id), "LASTBLOCKDATA", content)
           /\ Saved(fs)
           /\ last_op' = [NoOp EXCEPT !.op = "BlockRead", !.id = block_id, !.content = content,
                                      !.ok = (block_id \in DOMAIN fs.blocks)]
    /\ nops' = nops + 1
    /\ UNCHANGED <<run_vars, comp_vars, load_vars, boot_vars, save_vars, aux_vars>>
    /\ UNCHANGED <<alloc_log, write_log>>

\* Set[var_name]=Block[Read][block_id]
SetBlockRead(var_name, block_id) ==
    /\ nops < MaxOps
    /\ LET fs == fs_load
           content == fs_read_block(fs, block_id)
       IN  /\ fs_loaded' = TRUE
           /\ fs_state' = fs
           /\ variables' = Put(Put(variables, var_name, content), "LASTBLOCK", block_id)
           /\ Saved(fs)
           /\ last_op' = [NoOp EXCEPT !.op = "SetBlockRead", !.id = block_id, !.content = content,
                                      !.ok = (block_id \in DOMAIN fs.blocks)]
    /\ nops' = nops + 1
    /\ UNCHANGED <<run_vars, comp_vars, load_vars, boot_vars, save_vars, aux_vars>>
    /\ UNCHANGED <<alloc_log, write_log>>

BlockWrite(block_id, content) ==
    /\ nops < MaxOps
    /\ LET w == fs_write_block(fs_load, block_id, content)
       IN  /\ fs_loaded' = TRUE
           /\ fs_state' = w.fs
           /\ IF w.ok
              THEN /\ variables' = Put(variables, "LASTBLOCK", block_id)
                   /\ Saved(w.fs)
              ELSE /\ UNCHANGED variables
                   /\ NotSaved
           /\ last_op' = [NoOp EXCEPT !.op = "BlockWrite", !.id = block_id, !.content = content,
                                      !.ok = w.ok]
    /\ nops' = nops + 1
    /\ UNCHANGED <<run_vars, comp_vars, load_vars, boot_vars, save_vars, aux_vars>>
    /\ UNCHANGED <<alloc_log, write_log>>

FSCreate(token, meta) ==
    /\ nops < MaxOps
    /\ LET file_path == fs_normalize_path(token)
           fs == fs_load
           exists == file_path \in DOMAIN fs.files
           fs1 == IF exists THEN fs ELSE fs_create_file(fs, file_path, meta)
       IN  /\ fs_loaded' = TRUE
           /\ fs_state' = fs1
           /\ IF exists
              THEN /\ UNCHANGED variables
                   /\ NotSaved
              ELSE /\ variables' = Put(variables, "LASTCREATEPATH", file_path)
                   /\ Saved(fs1)
           /\ last_op' = [NoOp EXCEPT !.op = "FSCreate", !.path = file_path, !.meta = meta,
                                      !.ok = ~exists]
    /\ nops' = nops + 1
    /\ UNCHANGED <<run_vars, comp_vars, load_vars, boot_vars, save_vars, aux_vars>>
    /\ UNCHANGED <<alloc_log, write_log>>

FSRead(token) ==
    /\ nops < MaxOps
    /\ LET file_path == fs_normalize_path(token)
           fs == fs_load
           content == fs_read_file(fs, file_path)
       IN  /\ fs_loaded' = TRUE
           /\ fs_state' = fs
           /\ variables' = Put(Put(Put(variables, "LASTREADPATH", file_path),
                                   "LASTREAD", content),
                               "LASTREADSIZE", Str(Len(content)))
           /\ Saved(fs)
           /\ last_op' = [NoOp EXCEPT !.op = "FSRead", !.path = file_path, !.content = content,
                                      !.ok = (file_path \in DOMAIN fs.files)]
    /\ nops' = nops + 1
    /\ UNCHANGED <<run_vars, comp_vars, load_vars, boot_vars, save_vars, aux_vars>>
    /\ UNCHANGED <<alloc_log, write_log>>

FSWrite(token, content) ==
    /\ nops < MaxOps
    /\ LET file_path == fs_normalize_path(token)
           fs == fs_load
           fs1 == fs_write_file(fs, file_path, content)
           existed == file_path \in DOMAIN fs.files
           prior == IF existed THEN fs.files[file_path].blocks ELSE <<>>
       IN  /\ fs_loaded' = TRUE
           /\ fs_state' = fs1
           /\ variables' = Put(Put(variables, "LASTWRITEPATH", file_path),
                               "LASTWRITESIZE", Str(Len(content)))
           /\ Saved(fs1)
           /\ alloc_log' = alloc_log \o NewIds(fs, fs1)
           /\ write_log' = Put(write_log, file_path,
                  Append(LogOf(file_path),
                         [had_blocks |-> Len(prior) > 0,
                          prior_blocks |-> prior,
                          prior_size |-> IF existed THEN fs.files[file_path].size ELSE 0,
                          prior_versions |-> IF existed THEN Len(fs.files[file_path].versions) ELSE 0,
                          prior_keys |-> DOMAIN fs.blocks,
                          len |-> Len(content),
                          blocks |-> fs1.files[file_path].blocks,
                          versions_after |-> Len(fs1.files[file_path].versions)]))
           /\ last_op' = [NoOp EXCEPT !.op = "FSWrite", !.path = file_path, !.content = content]
    /\ nops' = nops + 1
    /\ UNCHANGED <<run_vars, comp_vars, load_vars, boot_vars, save_vars, aux_vars>>

FSSetRole(token, role) ==
    /\ nops < MaxOps
    /\ LET file_path == fs_normalize_path(token)
           r == fs_set_role(fs_load, file_path, role)
       IN  /\ fs_loaded' = TRUE
           /\ fs_state' = r.fs
           /\ IF r.ok
              THEN /\ variables' = Put(Put(variables, "LASTROLEPATH", file_path), "LASTROLE", role)
                   /\ Saved(r.fs)
              ELSE /\ UNCHANGED variables
                   /\ NotSaved
           /\ last_op' = [NoOp EXCEPT !.op = "FSSetRole", !.path = file_path, !.ok = r.ok]
    /\ nops' = nops + 1
    /\ UNCHANGED <<run_vars, comp_vars, load_vars, boot_vars, save_vars, aux_vars>>
    /\ UNCHANGED <<alloc_log, write_log>>

FSTran(token) ==
    /\ nops < MaxOps
    /\ LET file_path == fs_normalize_path(token)
           r == fs_tran(fs_load, file_path)
       IN  /\ fs_loaded' = TRUE
           /\ fs_state' = r.fs
           /\ IF r.ok
              THEN /\ variables' = Put(Put(variables, "LASTROLEPATH", file_path),
                                       "LASTROLE", <<"T", "r", "a", "n">>)
                   /\ Saved(r.fs)
              ELSE /\ UNCHANGED variables
                   /\ NotSaved
           /\ last_op' = [NoOp EXCEPT !.op = "FSTran", !.path = file_path, !.ok = r.ok]
    /\ nops' = nops + 1
    /\ UNCHANGED <<run_vars, comp_vars, load_vars, boot_vars, save_vars, aux_vars>>
    /\ UNCHANGED <<alloc_log, write_log>>

\* the store before its first use
StoreInit ==
    /\ fs_loaded = FALSE
    /\ fs_state = fs_default_state
    /\ disk_exists = FALSE
    /\ disk = fs_default_state
    /\ nops = 0
    /\ last_op = NoOp
    /\ alloc_log = <<>>
    /\ write_log = EmptyMap

NoPos == [s |-> "", i |-> 0]

NoStep == [ev |-> "none", pos |-> NoPos, k |-> "", pc |-> 0]

\* no program is loaded
RunIdle ==
    /\ source = [main |-> <<>>, functions |-> EmptyMap]
    /\ program_lines = <<>>
    /\ current_line = 0
    /\ functions = EmptyMap
    /\ labels = EmptyMap
    /\ stack = <<>>
    /\ status = "idle"
    /\ restored = FALSE
    /\ executed = {}
    /\ ifres = EmptyMap
    /\ last = NoStep
    /\ sites = <<>>
    /\ site = [lines |-> <<>>, pc |-> 0]
    /\ hardware_log = <<>>

NoLoad == [program_lines |-> <<>>, labels |-> EmptyMap, functions |-> EmptyMap]

\* neither loader has been called
LoadIdle ==
    /\ raw_lines = <<>>
    /\ load = [pos |-> 0, in_function |-> FALSE, current_func |-> "", status |-> "idle"]
    /\ written = <<>>
    /\ first_load = NoLoad
    /\ parse = [pos |-> 0, in_function |-> FALSE, current_func |-> "", status |-> "idle",
                main_lines |-> <<>>, functions_map |-> EmptyMap, names |-> <<>>]

\* compile_long_to_vm has not been called
\* the output file: whether it exists and the byte runs it is made of
NoFile == [exists |-> FALSE, bytes |-> <<>>]

\* compile_to_boot_sector is not running
BootIdle ==
    boot = [pc |-> "idle", exit |-> -1, stage2_size |-> 0, stage2_sectors |-> 0,
            stage1_equ |-> 0, stage1_size |-> 0, out |-> NoFile, before |-> NoFile,
            log |-> <<>>, failed |-> ""]

\* fs_save is not running: the file, if there is one, holds the whole of
\* the document disk
SaveIdle ==
    save = [phase |-> "idle", text |-> "complete", next |-> fs_default_state,
            prev |-> fs_default_state, prev_exists |-> FALSE, crashed |-> FALSE]

NoCall == [fn |-> "none"]

CInterpIdle == [status |-> "idle"]

AuxIdle ==
    /\ applied = NoCall
    /\ cinterp = CInterpIdle

CompileIdle ==
    /\ c_source = [main |-> <<>>, functions |-> <<>>]
    /\ c_unit = 0
    /\ c_pos = 0
    /\ c_marks = <<>>
    /\ c_units = <<>>
    /\ c_status = "idle"
    /\ ops = <<>>
    /\ label_positions = EmptyMap
    /\ strings = EmptyMap
    /\ string_order = <<>>
    /\ variables_map = EmptyMap
    /\ if_stack = <<>>
    /\ loop_stack = <<>>
    /\ if_counter = 0
    /\ loop_counter = 0
    /\ asm_labels = {}
    /\ asm_refs = {}

InitFS ==
    /\ StoreInit
    /\ BootIdle
    /\ SaveIdle
    /\ AuxIdle
    /\ LoadIdle
    /\ variables = EmptyMap
    /\ RunIdle
    /\ CompileIdle

NextFS ==
    \/ BlockAlloc
    \/ \E id \in IdTokens : BlockRead(id)
    \/ \E id \in IdTokens, c \in Contents : BlockWrite(id, c)
    \/ \E t \in PathTokens, m \in Metas : FSCreate(t, m)
    \/ \E t \in PathTokens : FSRead(t)
    \/ \E t \in PathTokens, c \in Contents : FSWrite(t, c)
    \/ \E t \in PathTokens, r \in Roles : FSSetRole(t, r)
    \/ \E t \in PathTokens : FSTran(t)

SpecFS == InitFS /\ [][NextFS]_vars

\* ------------------------------------------------------------------------
\* Properties of the store
\* ------------------------------------------------------------------------
Range(q) == {q[i] : i \in 1..Len(q)}

NoDuplicates(q) == \A i, j \in 1..Len(q) : i # j => q[i] # q[j]

CeilDiv(n, d) == (n + d - 1) \div d

RECURSIVE SumLen(_, _)
SumLen(fs, ids) ==
    IF Len(ids) = 0 THEN 0
    ELSE Len(fs.blocks[Head(ids)]) + SumLen(fs, Tail(ids))

\* the entries of a write log that were made while the file had blocks
RECURSIVE Snapshotting(_)
Snapshotting(log) ==
    IF Len(log) = 0 THEN <<>>
    ELSE IF Head(log).had_blocks THEN <<Head(log)>> \o Snapshotting(Tail(log))
    ELSE Snapshotting(Tail(log))

\* C5: in every reachable state of the store, every file's size field equals
\* the sum of the lengths of the contents of the blocks of its current
\* blocklist (Block[Write] may target any allocated id).
C5_SizeIsSumOfBlockLengths ==
    \A p \in DOMAIN fs_state.files :
        fs_state.files[p].size = SumLen(fs_state, fs_state.files[p].blocks)

\* C6: every block id of a file's current blocklist or of the blocklist of
\* one of its version records is a key of blocks, and every id that was
\* ever allocated is still a key of blocks (no key is ever removed).
C6_BlockIdsExist ==
    /\ \A p \in DOMAIN fs_state.files :
          /\ Range(fs_state.files[p].blocks) \subseteq DOMAIN fs_state.blocks
          /\ \A k \in 1..Len(fs_state.files[p].versions) :
                Range(fs_state.files[p].versions[k].blocks) \subseteq DOMAIN fs_state.blocks
    /\ Range(alloc_log) \subseteq DOMAIN fs_state.blocks
    /\ \A p \in DOMAIN write_log : \A i \in 1..Len(write_log[p]) :
          write_log[p][i].prior_keys \subseteq DOMAIN fs_state.blocks

\* a file holds blocks and a version record, and a block was allocated directly
C6_Witness ==
    /\ last_op.op = "BlockAlloc"
    /\ \E p \in DOMAIN fs_state.files :
          /\ Len(fs_state.files[p].blocks) > 0
          /\ Len(fs_state.files[p].versions) > 0

\* C7: from the default store, next_block_id is greater than every key of
\* blocks (read as a number), it never decreases, and fs_alloc_block never
\* returns an id that an earlier call returned.
C7_NextBlockIdFresh ==
    /\ [](/\ \A k \in DOMAIN fs_state.blocks : fs_state.next_block_id > ToInt(k)
          /\ NoDuplicates(alloc_log))
    /\ [][fs_state'.next_block_id >= fs_state.next_block_id]_vars

\* ids were handed out both by Block[Alloc] and by a chunked file write
C7_Witness ==
    /\ Len(alloc_log) >= 3
    /\ \E p \in DOMAIN fs_state.files : Len(fs_state.files[p].blocks) >= 2
    /\ \E id \in DOMAIN fs_state.blocks : \A p \in DOMAIN fs_state.files :
          id \notin Range(fs_state.files[p].blocks)

\* C8: a file write with non-empty content of length n leaves a current
\* blocklist of exactly ceil(n / 4096) ids, none of which was a key of
\* blocks before the write; the blocklists produced by two distinct writes
\* to one file are disjoint, and the current blocklist is disjoint from the
\* blocklist of every version record.
C8_WriteAllocatesFreshBlocks ==
    /\ \A p \in DOMAIN write_log : \A i \in 1..Len(write_log[p]) :
          LET e == write_log[p][i]
          IN  /\ e.len > 0 =>
                    /\ Len(e.blocks) = CeilDiv(e.len, 4096)
                    /\ NoDuplicates(e.blocks)
                    /\ Range(e.blocks) \cap e.prior_keys = {}
              /\ \A j \in 1..Len(write_log[p]) :
                    i # j => Range(e.blocks) \cap Range(write_log[p][j].blocks) = {}
    /\ \A p \in DOMAIN fs_state.files : \A k \in 1..Len(fs_state.files[p].versions) :
          Range(fs_state.files[p].blocks) \cap Range(fs_state.files[p].versions[k].blocks) = {}
    /\ last_op.op = "FSWrite" => fs_state.files[last_op.path].blocks
                                     = write_log[last_op.path][Len(write_log[last_op.path])].blocks

\* a file was written twice with non-empty content, the last time with more
\* than one block
C8_Witness ==
    /\ last_op.op = "FSWrite"
    /\ Len(last_op.content) > DefaultBlockSize
    /\ Len(fs_state.files[last_op.path].blocks) >= 2
    /\ Len(fs_state.files[last_op.path].versions) > 0

\* C9: the versions list of a file has one record per FS[Write] made while
\* the file existed with a non-empty blocklist, in order, and each record
\* holds the blocklist and the size the file had just before that write
\* (so earlier records are never changed or removed).
C9_VersionsAreSnapshots ==
    \A p \in DOMAIN fs_state.files :
        LET snaps == Snapshotting(IF p \in DOMAIN write_log THEN write_log[p] ELSE <<>>)
            versions == fs_state.files[p].versions
        IN  /\ Len(versions) = Len(snaps)
            /\ \A k \in 1..Len(versions) :
                  /\ versions[k].blocks = snaps[k].prior_blocks
                  /\ versions[k].size = snaps[k].prior_size

\* a file written three times, of which one write found no blocks and two
\* found some
C9_Witness ==
    \E p \in DOMAIN write_log :
        /\ Len(write_log[p]) = 3
        /\ Len(fs_state.files[p].versions) = 2
        /\ fs_state.files[p].versions[1].size # fs_state.files[p].versions[2].size

\* C10 as stated: every FS[Write] to a path that was written before appends
\* exactly one version record, and the first write appends none.
C10_EveryLaterWriteAppends ==
    \A p \in DOMAIN write_log : \A i \in 1..Len(write_log[p]) :
        write_log[p][i].versions_after - write_log[p][i].prior_versions
            = (IF i > 1 THEN 1 ELSE 0)

\* C10 amended: an FS[Write] appends exactly one version record when the
\* previous FS[Write] to that path had non-empty content, and none when it
\* is the first write to the path or follows a write of empty content.
C10_WriteAfterNonEmptyAppends ==
    \A p \in DOMAIN write_log : \A i \in 1..Len(write_log[p]) :
        write_log[p][i].versions_after - write_log[p][i].prior_versions
            = (IF i > 1 /\ write_log[p][i - 1].len > 0 THEN 1 ELSE 0)

\* a path written non-empty, then empty, then again: the second write
\* appended a record and the third did not
C10_Witness ==
    \E p \in DOMAIN write_log :
        /\ Len(write_log[p]) = 3
        /\ write_log[p][1].len > 0
        /\ write_log[p][2].len = 0
        /\ write_log[p][3].versions_after = 1

\* --- runs of the store without Block[Write] --------------------------------
\* contents shorter than a block, of one block and longer than a block
WriteContents == Contents \cup {Text(2)}

NextFSWrites ==
    \/ BlockAlloc
    \/ \E id \in IdTokens : BlockRead(id)
    \/ \E t \in PathTokens, m \in Metas : FSCreate(t, m)
    \/ \E t \in PathTokens : FSRead(t)
    \/ \E t \in PathTokens, c \in WriteContents : FSWrite(t, c)
    \/ \E t \in PathTokens, r \in Roles : FSSetRole(t, r)
    \/ \E t \in PathTokens : FSTran(t)

SpecFSWrites == InitFS /\ [][NextFSWrites]_vars

\* the content given to the most recent FS[Write] of a path: the input of
\* the recorded length (the inputs have different lengths)
LastWritten(p) == CHOOSE c \in WriteContents : Len(c) = write_log[p][Len(write_log[p])].len

\* C11: with no Block[Write], every file that was written has for size the
\* length of the concatenation of its current blocks, reading it gives the
\* content of its most recent FS[Write], and an FS[Read] of it returned
\* that content and stored it in LASTREAD.
C11_ReadReturnsLastWrite ==
    /\ \A p \in DOMAIN write_log :
          /\ p \in DOMAIN fs_state.files
          /\ fs_state.files[p].size = Len(ConcatBlocks(fs_state, fs_state.files[p].blocks))
          /\ fs_read_file(fs_state, p) = LastWritten(p)
    /\ (last_op.op = "FSRead" /\ last_op.path \in DOMAIN write_log) =>
          /\ last_op.content = LastWritten(last_op.path)
          /\ variables["LASTREAD"] = LastWritten(last_op.path)
          /\ variables["LASTREADSIZE"] = Str(Len(LastWritten(last_op.path)))

\* a file written with one block, then with more than one block, was read
C11_Witness ==
    /\ last_op.op = "FSRead"
    /\ last_op.path \in DOMAIN write_log
    /\ Len(write_log[last_op.path]) = 2
    /\ write_log[last_op.path][1].len = DefaultBlockSize
    /\ Len(last_op.content) = DefaultBlockSize + 1

\* ------------------------------------------------------------------------
\* The interpreter (longi.py): lines, skips, loops, calls
\* ------------------------------------------------------------------------
\* A line is a record: k is the statement kind execute_line recognises by
\* its prefix, a and b are its operands.
Stmt(k, a, b) == [k |-> k, a |-> a, b |-> b]

\* DisplayText(SHELL)="."
DisplayL == Stmt("Display", "", <<>>)
\* If[X] = ""     (true while X is unset or blank)
IfBlankL == Stmt("If", "X", <<>>)
\* If[X] = "y"
IfYesL == Stmt("If", "X", <<"y">>)
ElseL == Stmt("Else", "", <<>>)
EndIfL == Stmt("EndIf", "", <<>>)
\* Set[X]="y"
SetL == Stmt("Set", "X", <<"y">>)
LoopL == Stmt("Loop", "", <<>>)
EndLoopL == Stmt("EndLoop", "", <<>>)
GotoL(l) == Stmt("Goto", l, <<>>)
LabelL(l) == Stmt("Label", l, <<>>)
CallL(f) == Stmt("Call", f, <<>>)
\* DisplayText(DIRECT)="."
DirectL == Stmt("Direct", "", <<".">>)
\* DisplayTextRaw(DIRECT)="."
RawDirectL == Stmt("RawDirect", "", <<".">>)
\* Set[X]=DisplayTextRaw(DIRECT)="."
SetRawDirectL == Stmt("SetRawDirect", "X", <<".">>)
\* Return["y"]
ReturnL == Stmt("Return", "", <<"y">>)

\* variables.get(name, "")
Get(name) == IF name \in DOMAIN variables THEN variables[name] ELSE <<>>

\* handle_if for the operator "=" and a quoted right-hand side that holds no
\* placeholder: the stripped value of the variable against the literal
handle_if(line) == Strip(Get(line.a)) = line.b

\* the scan of skip_if_block that ignores nesting
RECURSIVE SkipIfScan_flat(_, _, _)
SkipIfScan_flat(lines, i, depth) ==
    IF i >= Len(lines) THEN i
    ELSE IF lines[i + 1].k \in {"EndIf", "Else"} THEN i
    ELSE SkipIfScan_flat(lines, i + 1, depth)

\* the scan of skip_if_block from index i on, depth nested Ifs open
RECURSIVE SkipIfScan(_, _, _)
SkipIfScan(lines, i, depth) ==
    IF i >= Len(lines) THEN i
    ELSE LET l == lines[i + 1]
         IN  IF l.k = "If" THEN SkipIfScan(lines, i + 1, depth + 1)
             ELSE IF l.k = "EndIf"
                  THEN IF depth = 0 THEN i ELSE SkipIfScan(lines, i + 1, depth - 1)
             ELSE IF l.k = "Else" /\ depth = 0 THEN i
             ELSE SkipIfScan(lines, i + 1, depth)

skip_if_block(lines, start_index) == SkipIfScan(lines, start_index + 1, 0)

RECURSIVE SkipEndScan(_, _, _)
SkipEndScan(lines, i, depth) ==
    IF i >= Len(lines) THEN i
    ELSE LET l == lines[i + 1]
         IN  IF l.k = "If" THEN SkipEndScan(lines, i + 1, depth + 1)
             ELSE IF l.k = "EndIf"
                  THEN IF depth = 0 THEN i ELSE SkipEndScan(lines, i + 1, depth - 1)
             ELSE SkipEndScan(lines, i + 1, depth)

skip_to_endif(lines, start_index) == SkipEndScan(lines, start_index + 1, 0)

\* the lines handle_loop collects: those after start_index up to EndLoop
RECURSIVE LoopLines(_, _)
LoopLines(lines, i) ==
    IF i < Len(lines) /\ lines[i + 1].k # "EndLoop"
    THEN <<lines[i + 1]>> \o LoopLines(lines, i + 1)
    ELSE <<>>

\* the labels map that records the length of the stream after the append
LabelsOf_after_append(main) ==
    [n \in {main[i].a : i \in {j \in 1..Len(main) : main[j].k = "Label"}} |->
        (CHOOSE i \in 1..Len(main) :
            /\ main[i].k = "Label" /\ main[i].a = n
            /\ \A j \in (i + 1)..Len(main) : ~(main[j].k = "Label" /\ main[j].a = n))]

\* the labels map load_program records for a main stream (a later
\* declaration of a name replaces an earlier one)
LabelsOf(main) ==
    [n \in {main[i].a : i \in {j \in 1..Len(main) : main[j].k = "Label"}} |->
        (CHOOSE i \in 1..Len(main) :
            /\ main[i].k = "Label" /\ main[i].a = n
            /\ \A j \in (i + 1)..Len(main) : ~(main[j].k = "Label" /\ main[j].a = n)) - 1]

\* --- the call stack ------------------------------------------------------
\* kind "run": run_program; "call": handle_call, with the line list and
\* index it saved; "loop": handle_loop, with the lines it collected and the
\* position idx (1-based) of its for loop.  name is the stream the frame
\* executes.
Frame(kind, name, lines, pc, idx) == [kind |-> kind, name |-> name, lines |-> lines, pc |-> pc, idx |-> idx]

Top == stack[Len(stack)]

Sequential == Top.kind \in {"run", "call"}

\* current_line grows without limit when a false If is executed in a loop
\* after current_line has passed the end of the line list; runs are
\* followed while it is below MaxLine
MaxLine == 12

Active == status = "running" /\ ~restored /\ Len(stack) > 0 /\ current_line < MaxLine

HasLine == IF Top.kind = "loop" THEN Len(Top.lines) > 0 ELSE current_line < Len(program_lines)

Line == IF Top.kind = "loop" THEN Top.lines[Top.idx] ELSE program_lines[current_line + 1]

Pos == [s |-> Top.name, i |-> IF Top.kind = "loop" THEN Top.idx - 1 ELSE current_line]

\* a handle_loop that returns after the last line of its body
Advance_once(pc) ==
    IF Sequential
    THEN /\ current_line' = pc + 1
         /\ stack' = stack
    ELSE IF Top.idx = Len(Top.lines)
    THEN /\ current_line' = pc + 1
         /\ stack' = SubSeq(stack, 1, Len(stack) - 1)
    ELSE /\ current_line' = pc
         /\ stack' = [stack EXCEPT ![Len(stack)].idx = Top.idx + 1]

\* what follows the return of execute_line when it left current_line = pc:
\* run_program and handle_call add one, handle_loop takes its next line
Advance(pc) ==
    IF Sequential
    THEN /\ current_line' = pc + 1
         /\ stack' = stack
    ELSE /\ current_line' = pc
         /\ stack' = [stack EXCEPT ![Len(stack)].idx = (Top.idx % Len(Top.lines)) + 1]

Record(ev) ==
    /\ executed' = executed \cup {Pos}
    /\ last' = [ev |-> ev, pos |-> Pos, k |-> Line.k, pc |-> current_line]

\* the finally clause of handle_call that does not restore current_line
CallRestore_lines_only(frame) == [lines |-> frame.lines, pc |-> current_line]

\* the finally clause of handle_call: the caller's line list and index
CallRestore(frame) == [lines |-> frame.lines, pc |-> frame.pc]

\* maximal nesting of handle_call and handle_loop
MaxDepth == 4

\* --- execute_line, one action per kind of statement -----------------------
\* DisplayText, Label, EndIf and the lines execute_line has no branch for
ExecPlain ==
    /\ Active /\ HasLine
    /\ Line.k \in {"Display", "Label", "EndIf", "EndLoop", "Return"}
    /\ Advance(current_line)
    /\ Record("exec")
    /\ UNCHANGED <<load_vars, boot_vars, save_vars, aux_vars, comp_vars, store_vars, hardware_log, variables, source, program_lines, functions, labels, status,
                   restored, ifres, sites, site>>

\* DisplayText(DIRECT): handle_display gives the text to send_to_hardware,
\* which appends it and a newline to the log
ExecDisplayDirect ==
    /\ Active /\ HasLine
    /\ Line.k = "Direct"
    /\ hardware_log' = Append(hardware_log, Line.b \o <<"\n">>)
    /\ Advance(current_line)
    /\ Record("exec")
    /\ UNCHANGED <<load_vars, boot_vars, save_vars, aux_vars, comp_vars, store_vars, variables, source, program_lines, functions, labels,
                   status, restored, ifres, sites, site>>

\* DisplayTextRaw(DIRECT), as a statement and as the value of a Set:
\* send_to_hardware is called with the keyword add_newline, which it does
\* not have, and the TypeError is caught nowhere
ExecDisplayRawDirect ==
    /\ Active /\ HasLine
    /\ Line.k \in {"RawDirect", "SetRawDirect"}
    /\ status' = "raising"
    /\ Record("exec")
    /\ UNCHANGED <<load_vars, boot_vars, save_vars, aux_vars, comp_vars, store_vars, hardware_log, variables, source, program_lines,
                   current_line, functions, labels, stack, restored, ifres, sites, site>>

ExecSet ==
    /\ Active /\ HasLine
    /\ Line.k = "Set"
    /\ variables' = Put(variables, Line.a, Line.b)
    /\ Advance(current_line)
    /\ Record("exec")
    /\ UNCHANGED <<load_vars, boot_vars, save_vars, aux_vars, comp_vars, store_vars, hardware_log, source, program_lines, functions, labels, status,
                   restored, ifres, sites, site>>

ExecIf ==
    /\ Active /\ HasLine
    /\ Line.k = "If"
    /\ LET res == handle_if(Line)
       IN  /\ Advance(IF res THEN current_line ELSE skip_if_block(program_lines, current_line))
           /\ ifres' = Put(ifres, Pos, res)
    /\ Record("exec")
    /\ UNCHANGED <<load_vars, boot_vars, save_vars, aux_vars, comp_vars, store_vars, hardware_log, variables, source, program_lines, functions, labels, status,
                   restored, sites, site>>

ExecElse ==
    /\ Active /\ HasLine
    /\ Line.k = "Else"
    /\ Advance(skip_to_endif(program_lines, current_line))
    /\ Record("exec")
    /\ UNCHANGED <<load_vars, boot_vars, save_vars, aux_vars, comp_vars, store_vars, hardware_log, variables, source, program_lines, functions, labels, status,
                   restored, ifres, sites, site>>

ExecLoop ==
    /\ Active /\ HasLine
    /\ Line.k = "Loop"
    /\ Len(stack) < MaxDepth
    /\ stack' = Append(stack, Frame("loop", "loop", LoopLines(program_lines, current_line + 1), 0, 1))
    /\ Record("exec")
    /\ UNCHANGED <<load_vars, boot_vars, save_vars, aux_vars, comp_vars, store_vars, hardware_log, variables, source, program_lines, current_line, functions, labels,
                   status, restored, ifres, sites, site>>

ExecGoto ==
    /\ Active /\ HasLine
    /\ Line.k = "Goto"
    /\ IF Line.a \in DOMAIN labels
       THEN /\ Advance(labels[Line.a])
            /\ UNCHANGED status
       ELSE /\ status' = "unwinding"
            /\ UNCHANGED <<current_line, stack>>
    /\ Record("exec")
    /\ UNCHANGED <<load_vars, boot_vars, save_vars, aux_vars, comp_vars, store_vars, hardware_log, variables, source, program_lines, functions, labels,
                   restored, ifres, sites, site>>

ExecCall ==
    /\ Active /\ HasLine
    /\ Line.k = "Call"
    /\ IF Line.a \notin DOMAIN functions
       THEN /\ Advance(current_line)
            /\ UNCHANGED <<program_lines, sites>>
       ELSE /\ Len(stack) < MaxDepth
            /\ stack' = Append(stack, Frame("call", Line.a, program_lines, current_line, 0))
            /\ program_lines' = functions[Line.a]
            /\ current_line' = 0
            /\ sites' = Append(sites, [lines |-> program_lines, pc |-> current_line])
    /\ Record("exec")
    /\ UNCHANGED <<load_vars, boot_vars, save_vars, aux_vars, comp_vars, store_vars, hardware_log, variables, source, functions, labels, status, restored, ifres, site>>

\* the while loop of handle_call ends: the finally clause runs
CallReturn ==
    /\ Active
    /\ Top.kind = "call"
    /\ current_line >= Len(program_lines)
    /\ program_lines' = CallRestore(Top).lines
    /\ current_line' = CallRestore(Top).pc
    /\ stack' = SubSeq(stack, 1, Len(stack) - 1)
    /\ restored' = TRUE
    /\ site' = sites[Len(sites)]
    /\ sites' = SubSeq(sites, 1, Len(sites) - 1)
    /\ last' = [ev |-> "return", pos |-> Pos, k |-> "", pc |-> current_line]
    /\ UNCHANGED <<load_vars, boot_vars, save_vars, aux_vars, comp_vars, store_vars, hardware_log, variables, source, functions, labels, status, executed, ifres>>

\* execute_line returns to the caller of the CallFunction line
AfterCall ==
    /\ status = "running" /\ restored
    /\ Advance(current_line)
    /\ restored' = FALSE
    /\ last' = [ev |-> "after_call", pos |-> Pos, k |-> "Call", pc |-> current_line]
    /\ UNCHANGED <<load_vars, boot_vars, save_vars, aux_vars, comp_vars, store_vars, hardware_log, variables, source, program_lines, functions, labels, status,
                   executed, ifres, sites, site>>

\* the while loop of run_program ends
Finish ==
    /\ Active
    /\ Top.kind = "run"
    /\ current_line >= Len(program_lines)
    /\ status' = "done"
    /\ last' = [ev |-> "finish", pos |-> Pos, k |-> "", pc |-> current_line]
    /\ UNCHANGED <<load_vars, boot_vars, save_vars, aux_vars, comp_vars, store_vars, hardware_log, variables, source, program_lines, current_line, functions, labels,
                   stack, restored, executed, ifres, sites, site>>

\* sys.exit(1) of handle_goto, or an exception that nothing catches,
\* propagates: each handle_call it leaves runs its finally clause; it ends
\* the process when it leaves run_program
Unwind ==
    /\ status \in {"unwinding", "raising"}
    /\ IF Top.kind = "call"
       THEN /\ program_lines' = CallRestore(Top).lines
            /\ current_line' = CallRestore(Top).pc
            /\ restored' = TRUE
            /\ site' = sites[Len(sites)]
            /\ sites' = SubSeq(sites, 1, Len(sites) - 1)
       ELSE UNCHANGED <<program_lines, current_line, restored, site, sites>>
    /\ stack' = SubSeq(stack, 1, Len(stack) - 1)
    /\ status' = IF Len(stack) > 1 THEN status
                  ELSE IF status = "unwinding" THEN "exit" ELSE "crashed"
    /\ last' = [ev |-> "unwind", pos |-> Pos, k |-> Top.kind, pc |-> current_line]
    /\ UNCHANGED <<load_vars, boot_vars, save_vars, aux_vars, comp_vars, store_vars, hardware_log, variables, source, functions, labels, executed, ifres>>

\* --- the programs the interpreter is run on --------------------------------
\* longest main stream or function body made of If, Else, EndIf and
\* DisplayText lines
MaxLen == 7
\* longest function body made of calls, gotos and displays
MaxBody == 3

\* balanced If / Else / EndIf: open holds, per open If, whether its Else
\* has been seen
RECURSIVE Balanced(_, _, _)
Balanced(lines, i, open) ==
    IF i > Len(lines) THEN Len(open) = 0
    ELSE IF lines[i].k = "If" THEN Balanced(lines, i + 1, Append(open, FALSE))
    ELSE IF lines[i].k = "Else"
         THEN /\ Len(open) > 0
              /\ ~open[Len(open)]
              /\ Balanced(lines, i + 1, [open EXCEPT ![Len(open)] = TRUE])
    ELSE IF lines[i].k = "EndIf"
         THEN /\ Len(open) > 0
              /\ Balanced(lines, i + 1, SubSeq(open, 1, Len(open) - 1))
    ELSE Balanced(lines, i + 1, open)

WellFormed(lines) == Balanced(lines, 1, <<>>)

IfTokens == {DisplayL, IfBlankL, IfYesL, ElseL, EndIfL}

\* the open Ifs after one more line t; ok is FALSE when t closes nothing
IfStep(open, t) ==
    IF t.k = "If" THEN [ok |-> TRUE, open |-> Append(open, FALSE)]
    ELSE IF t.k = "Else"
         THEN IF Len(open) > 0 /\ ~open[Len(open)]
              THEN [ok |-> TRUE, open |-> [open EXCEPT ![Len(open)] = TRUE]]
              ELSE [ok |-> FALSE, open |-> open]
    ELSE IF t.k = "EndIf"
         THEN IF Len(open) > 0
              THEN [ok |-> TRUE, open |-> SubSeq(open, 1, Len(open) - 1)]
              ELSE [ok |-> FALSE, open |-> open]
    ELSE [ok |-> TRUE, open |-> open]

\* the prefixes of n + 1 lines that extend the prefix x by one line
IfExtend(x, n) ==
    {[p |-> Append(x.p, t), open |-> IfStep(x.open, t).open] :
        t \in {u \in IfTokens : /\ IfStep(x.open, u).ok
                                 /\ Len(IfStep(x.open, u).open) <= MaxLen - (n + 1)}}

RECURSIVE IfGrow(_, _)
\* the well-formed programs of n to MaxLen lines that start with a prefix
\* in S, a set of prefixes of n lines
IfGrow(S, n) ==
    {x.p : x \in {y \in S : y.open = <<>>}}
        \cup (IF n = MaxLen THEN {} ELSE IfGrow(UNION {IfExtend(x, n) : x \in S}, n + 1))

\* the well-formed programs of at most MaxLen lines
IfPrograms == IfGrow({[p |-> <<>>, open |-> <<>>]}, 0)

\* the If programs short enough for a loop body or a function body
BodyIfPrograms == {p \in IfPrograms : Len(p) <= MaxBody + 2}

CallTokens == {DisplayL, IfYesL, GotoL("L"), GotoL("M"), CallL("G"), CallL("H")}

CallBodies == UNION {[1..n -> CallTokens] : n \in 1..MaxBody}

Program(main, fns) == [main |-> main, functions |-> fns]

OneFunction(f, body) == [x \in {f} |-> body]

TwoFunctions(bodyF, bodyG) == [x \in {"F", "G"} |-> IF x = "F" THEN bodyF ELSE bodyG]

\* If / Else / EndIf in the main stream, after an optional Set[X]="y"
IfFamily ==
    {Program(pre \o p, EmptyMap) : pre \in {<<>>, <<SetL>>}, p \in IfPrograms}

\* a Loop[FOREVER] whose body holds Ifs, or a call
LoopFamily ==
    {Program(pre \o <<LoopL>> \o p \o <<EndLoopL, DisplayL>>, EmptyMap) :
        pre \in {<<>>, <<SetL>>}, p \in {q \in BodyIfPrograms : Len(q) > 0}}

\* calls of a function whose body holds Ifs
CallIfFamily ==
    {Program(<<DisplayL, CallL("F"), DisplayL>>, OneFunction("F", p)) : p \in BodyIfPrograms}

\* calls of a function whose body holds gotos and calls, from the main
\* stream and from a loop
CallFamily ==
    {Program(main, TwoFunctions(bodyF, bodyG)) :
        main \in {<<CallL("F"), DisplayL>>,
                  <<LabelL("L"), DisplayL, CallL("F"), DisplayL>>,
                  <<LoopL, CallL("F"), DisplayL, EndLoopL>>},
        bodyF \in CallBodies,
        bodyG \in {<<DisplayL>>, <<IfYesL, DisplayL>>, <<GotoL("M")>>}}

\* calls of a function whose body holds a Return
ReturnFamily ==
    {Program(<<CallL("F"), DisplayL>>, OneFunction("F", body)) :
        body \in {<<ReturnL, DisplayL>>,
                  <<DisplayL, ReturnL, DisplayL>>,
                  <<IfBlankL, ReturnL, EndIfL, DisplayL>>}}

\* longest main stream made of gotos, labels and displays
MaxGoto == 4

GotoTokens == {DisplayL, GotoL("L"), GotoL("M"), LabelL("L"), LabelL("M")}

\* gotos in the main stream, forward and backward, to labels that are
\* declared once, twice or not at all; a backward goto taken once
GotoFamily ==
    {Program(main, EmptyMap) : main \in UNION {[1..n -> GotoTokens] : n \in 1..MaxGoto}}
    \cup {Program(<<LabelL("L"), IfBlankL, SetL, GotoL("L"), EndIfL, DisplayL>>, EmptyMap)}

\* a Loop[FOREVER] whose body holds gotos, to a label that is recorded and
\* to one that is not
LoopGotoFamily ==
    {Program(<<LabelL("L"), LoopL>> \o body \o <<EndLoopL, DisplayL>>, EmptyMap) :
        body \in {<<IfYesL, GotoL("L"), EndIfL, DisplayL>>,
                  <<DisplayL, GotoL("L")>>,
                  <<DisplayL, GotoL("M"), DisplayL>>}}

\* displays to the hardware log, in the main stream and in a function
DirectFamily ==
    {Program(main, OneFunction("F", body)) :
        main \in {<<DirectL, RawDirectL, DisplayL>>,
                  <<DirectL, DirectL>>,
                  <<SetRawDirectL, DisplayL>>,
                  <<DirectL, CallL("F"), DirectL>>},
        body \in {<<DirectL>>, <<RawDirectL, DisplayL>>}}

\* the families of programs the interpreter is run on
\* a function whose body holds a goto to a label of the main stream, the
\* label after the call or before it
CallGotoFamily ==
    {Program(<<CallL("F"), DisplayL, LabelL("L"), DisplayL>>, OneFunction("F", body)) :
        body \in {<<GotoL("L"), DisplayL, DisplayL, DisplayL>>,
                  <<DisplayL, GotoL("L")>>}}
    \cup {Program(<<LabelL("L"), CallL("F"), DisplayL>>,
                  OneFunction("F", <<DisplayL, GotoL("L"), DisplayL>>))}

Programs ==
    <<IfFamily, LoopFamily, CallIfFamily, CallFamily, ReturnFamily, GotoFamily,
      DirectFamily, LoopGotoFamily, CallGotoFamily>>

\* after load_program, at the start of run_program
Init ==
    /\ StoreInit
    /\ BootIdle
    /\ SaveIdle
    /\ AuxIdle
    /\ LoadIdle
    /\ CompileIdle
    /\ variables = EmptyMap
    /\ \E family \in 1..Len(Programs) : \E prog \in Programs[family] :
          /\ source = prog
          /\ program_lines = prog.main
          /\ functions = prog.functions
          /\ labels = LabelsOf(prog.main)
    /\ current_line = 0
    /\ stack = <<Frame("run", "main", <<>>, 0, 0)>>
    /\ status = "running"
    /\ restored = FALSE
    /\ executed = {}
    /\ ifres = EmptyMap
    /\ last = NoStep
    /\ sites = <<>>
    /\ site = [lines |-> <<>>, pc |-> 0]
    /\ hardware_log = <<>>

Next ==
    \/ ExecPlain
    \/ ExecDisplayDirect
    \/ ExecDisplayRawDirect
    \/ ExecSet
    \/ ExecIf
    \/ ExecElse
    \/ ExecLoop
    \/ ExecGoto
    \/ ExecCall
    \/ CallReturn
    \/ AfterCall
    \/ Finish
    \/ Unwind

Spec == Init /\ [][Next]_vars

\* ------------------------------------------------------------------------
\* Properties of the interpreter
\* ------------------------------------------------------------------------
\* number of Ifs open before the line at index k (0-based)
Depth(lines, k) ==
    Cardinality({j \in 1..k : lines[j].k = "If"}) - Cardinality({j \in 1..k : lines[j].k = "EndIf"})

\* the EndIf that closes the If at index j
EndIfOf(lines, j) ==
    CHOOSE n \in (j + 1)..(Len(lines) - 1) :
        /\ lines[n + 1].k = "EndIf"
        /\ Depth(lines, n + 1) = Depth(lines, j)
        /\ \A m \in (j + 1)..(n - 1) :
              ~(lines[m + 1].k = "EndIf" /\ Depth(lines, m + 1) = Depth(lines, j))

\* the Else lines of the If at index j (at most one when well formed)
ElsesOf(lines, j) ==
    {e \in (j + 1)..(EndIfOf(lines, j) - 1) :
        lines[e + 1].k = "Else" /\ Depth(lines, e) = Depth(lines, j) + 1}

ElseOrEndIfOf(lines, j) ==
    IF ElsesOf(lines, j) = {} THEN EndIfOf(lines, j) ELSE CHOOSE e \in ElsesOf(lines, j) : TRUE

\* the If whose Else is at index e
IfOfElse(lines, e) == CHOOSE j \in 0..(e - 1) : lines[j + 1].k = "If" /\ e \in ElsesOf(lines, j)

IfsAround(lines, i) == {j \in 0..(i - 1) : lines[j + 1].k = "If" /\ EndIfOf(lines, j) > i}

\* the line at index i of stream s lies only in branches that the Ifs
\* around it selected when they were last evaluated
Selected(lines, s, i) ==
    \A j \in IfsAround(lines, i) :
        /\ [s |-> s, i |-> j] \in DOMAIN ifres
        /\ IF \E e \in ElsesOf(lines, j) : e < i
           THEN ~ifres[[s |-> s, i |-> j]]
           ELSE ifres[[s |-> s, i |-> j]]

Displays(lines) == {i \in 0..(Len(lines) - 1) : lines[i + 1].k = "Display"}

\* the main stream holds only Ifs, displays and Sets, and is well formed
StraightIfProgram ==
    /\ WellFormed(source.main)
    /\ \A i \in 1..Len(source.main) : source.main[i].k \in {"Display", "If", "Else", "EndIf", "Set"}

\* C1: for a well-formed, possibly nested If / Else / EndIf in the main
\* stream, skip_if_block returns the index of the matching Else, or of the
\* matching EndIf when there is none, and skip_to_endif that of the matching
\* EndIf; a false If resumes just after that Else or EndIf, a true If falls
\* through and its Else resumes just after the EndIf; the displays executed
\* so far are exactly those before current_line in the selected branches.
C1_IfSelectsOneBranch ==
    (StraightIfProgram /\ status \in {"running", "done"}) =>
        LET m == source.main
        IN  /\ \A j \in 0..(Len(m) - 1) :
                  /\ m[j + 1].k = "If" => skip_if_block(m, j) = ElseOrEndIfOf(m, j)
                  /\ m[j + 1].k = "Else" => skip_to_endif(m, j) = EndIfOf(m, IfOfElse(m, j))
            /\ (last.ev = "exec" /\ last.k = "If") =>
                  current_line = (IF ifres[last.pos] THEN last.pc ELSE ElseOrEndIfOf(m, last.pc)) + 1
            /\ (last.ev = "exec" /\ last.k = "Else") =>
                  current_line = EndIfOf(m, IfOfElse(m, last.pc)) + 1
            /\ {i \in Displays(m) : [s |-> "main", i |-> i] \in executed}
                  = {i \in Displays(m) : i < current_line /\ Selected(m, "main", i)}

\* a run has ended on a program with an If nested in an If that has an
\* Else, in which one If was true and one false and a display was skipped
C1_Witness ==
    /\ StraightIfProgram
    /\ status = "done"
    /\ \E j \in 0..(Len(source.main) - 1) :
          /\ source.main[j + 1].k = "If"
          /\ IfsAround(source.main, j) # {}
    /\ \E j \in 0..(Len(source.main) - 1) :
          source.main[j + 1].k = "If" /\ ElsesOf(source.main, j) # {}
    /\ \E a, b \in DOMAIN ifres : ifres[a] /\ ~ifres[b]
    /\ \E i \in Displays(source.main) : [s |-> "main", i |-> i] \notin executed
    /\ \E i \in Displays(source.main) : [s |-> "main", i |-> i] \in executed

\* C2: in the body of a Loop[FOREVER], a display that executes lies only in
\* branches its Ifs selected: not in the then-block of a false If, not in
\* the Else block of a true If.
C2_LoopIfSelectsBranch ==
    (/\ status = "running"
     /\ Len(stack) > 0
     /\ Top.kind = "loop"
     /\ WellFormed(Top.lines)
     /\ last.ev = "exec"
     /\ last.k = "Display"
     /\ last.pos.s = "loop") => Selected(Top.lines, "loop", last.pos.i)

\* C3: when handle_call is left, by the end of the body or by the exit of
\* a Goto to a missing label, the line list and current_line are those of
\* the moment of the call; the caller then goes on with the line after the
\* CallFunction line; a false If in a well-formed body resumes just after
\* its Else or EndIf in the body.
C3_CallRestoresCaller ==
    /\ restored => (program_lines = site.lines /\ current_line = site.pc)
    /\ (last.ev = "after_call" /\ status = "running") =>
          /\ program_lines = site.lines
          /\ current_line = site.pc + (IF Sequential THEN 1 ELSE 0)
    /\ (/\ status = "running" /\ ~restored
        /\ Len(stack) > 0 /\ Top.kind = "call"
        /\ WellFormed(program_lines)
        /\ last.ev = "exec" /\ last.k = "If" /\ last.pos.s = Top.name) =>
          current_line = (IF ifres[last.pos] THEN last.pc
                          ELSE ElseOrEndIfOf(program_lines, last.pc)) + 1

\* a call made at index 1 has returned after a false If skipped lines of
\* the body, and the caller is at index 2
C3_Witness ==
    /\ last.ev = "after_call"
    /\ site.pc = 1
    /\ current_line = 2
    /\ \E pos \in DOMAIN ifres : pos.s = "F" /\ ~ifres[pos]
    /\ \E i \in Displays(source.functions["F"]) : [s |-> "F", i |-> i] \notin executed

\* C12: a Return[expr] executed in a function body stores the value of expr
\* in __RETVAL and ends the body: no later line of the body is executed.
C12_ReturnEndsBody ==
    \A f \in DOMAIN source.functions :
        \A i \in 0..(Len(source.functions[f]) - 1) :
            (source.functions[f][i + 1].k = "Return" /\ [s |-> f, i |-> i] \in executed) =>
                /\ "__RETVAL" \in DOMAIN variables
                /\ variables["__RETVAL"] = source.functions[f][i + 1].b
                /\ \A j \in (i + 1)..(Len(source.functions[f]) - 1) :
                      [s |-> f, i |-> j] \notin executed

\* C13: a Goto[L] that run_program executes in the main stream, with L
\* recorded, leaves current_line just after the line labels[L], which is the
\* Label statement of L; with L not recorded the process exits, and from
\* the Goto on no line is executed.
C13_GotoInMainStream ==
    /\ (last.ev = "exec" /\ last.k = "Goto" /\ last.pos.s = "main" /\ Len(stack) = 1) =>
          LET l == source.main[last.pos.i + 1].a
          IN  IF l \in DOMAIN labels
              THEN /\ status = "running"
                   /\ labels[l] < Len(program_lines)
                   /\ program_lines[labels[l] + 1].k = "Label"
                   /\ program_lines[labels[l] + 1].a = l
                   /\ current_line = labels[l] + 1
              ELSE status = "unwinding"
    /\ status \in {"unwinding", "exit"} =>
          \/ last.ev = "unwind"
          \/ last.ev = "exec" /\ last.k = "Goto"
    /\ status = "exit" => Len(stack) = 0

\* a Goto of the main stream jumped forward over a display, and a later
\* Goto to a label that is not recorded ended the process
C13_Witness ==
    /\ status = "exit"
    /\ source.functions = EmptyMap
    /\ \E i \in 0..(Len(source.main) - 1) :
          /\ source.main[i + 1].k = "Goto"
          /\ source.main[i + 1].a \in DOMAIN labels
          /\ labels[source.main[i + 1].a] > i + 1
          /\ [s |-> "main", i |-> i] \in executed
          /\ source.main[i + 2].k = "Display"
          /\ [s |-> "main", i |-> i + 1] \notin executed
    /\ \E i \in 0..(Len(source.main) - 1) :
          /\ source.main[i + 1].k = "Goto"
          /\ source.main[i + 1].a \notin DOMAIN labels
          /\ [s |-> "main", i |-> i] \in executed

\* C14: DisplayTextRaw(DIRECT)="text", as a statement or as the value of a
\* Set, appends the text without a newline to the hardware log, raises
\* nothing that is not caught, and the run goes on with the next line.
C14_RawDirectAppends ==
    /\ status \notin {"raising", "crashed"}
    /\ (last.ev = "exec" /\ last.k \in {"RawDirect", "SetRawDirect"}) =>
          /\ status = "running"
          /\ Len(hardware_log) > 0
          /\ hardware_log[Len(hardware_log)] = <<".">>

LoopFrames == {k \in 1..Len(stack) : stack[k].kind = "loop"}

\* the handle_loop that was entered first
OuterLoop == CHOOSE k \in LoopFrames : \A j \in LoopFrames : k <= j

MaxSrc == 3

\* A source line: k is the statement kind compile_lines recognises by its
\* prefix and a its first operand.  For an If, op is the operator, rk tells
\* whether the right-hand side is quoted, a number or a variable name, b is
\* its text and n its number.  For a CallFunction, b is the capture target.
\* c and m are the second text and the second number of the statements that
\* have one.
Src2(k, a, op, rk, b, c, n, m) ==
    [k |-> k, a |-> a, op |-> op, rk |-> rk, b |-> b, c |-> c, n |-> n, m |-> m]

Src(k, a, op, rk, b, n) == Src2(k, a, op, rk, b, "", n, 0)

\* DisplayText(SHELL)="."
DisplayC == Src("DisplayText", "SHELL", "", "quoted", ".", 0)
LabelC(l) == Src("Label", l, "", "", "", 0)
GotoC(l) == Src("Goto", l, "", "", "", 0)
\* If[X] = "y"
IfEqC == Src("If", "X", "=", "quoted", "y", 0)
\* If[X] < 5
IfNumC == Src("If", "X", "<", "int", "", 5)
\* If[X] >= Y
IfVarC == Src("If", "X", ">=", "var", "Y", 0)
ElseC == Src("Else", "", "", "", "", 0)
EndIfC == Src("EndIf", "", "", "", "", 0)
LoopC == Src("Loop", "", "", "", "", 0)
EndLoopC == Src("EndLoop", "", "", "", "", 0)
\* CallFunction[f]
CallC(f) == Src("CallFunction", f, "", "", "", 0)
\* CallFunction[f] -> v
CallToC(f, v) == Src("CallFunction", f, "", "", v, 0)
\* Return[]
ReturnC == Src("Return", "", "", "", "", 0)
\* FS[Read][a], a statement compile_lines has no branch for
OtherC == Src("FS", "", "", "", "", 0)

\* the largest value of an 8-bit operand and of a 16-bit immediate
ByteMax == 255
WordMax == 65535

\* the statements compile_lines has no branch for: FS[...], Block[...],
\* WriteFile[...], AppendFile[...], TickTimer[...], Time[...], Every[MS],
\* ReadFile[...] and Random[...] at the start of a line
UnsupportedKinds ==
    {"FS", "Block", "WriteFile", "AppendFile", "TickTimer", "Time", "Every", "ReadFile", "Random"}

UnsupportedC(k) == Src(k, "", "", "", "", 0)
\* If[X] < n
IfImmC(n) == Src("If", "X", "<", "int", "", n)
\* Set[X] = Math(<`Y`> op n)
SetMathVIC(op, n) == Src("Set", "X", op, "Math", "Y", n)
\* Set[X] = Math(<`Y`> op <`Z`>)
SetMathVVC(op) == Src2("Set", "X", op, "Math", "Y", "Z", 0, 0)
\* Set[X] = rk[...], the right-hand side a use of ReadFile, Random, Time or FS
SetUseC(rk) == Src("Set", "X", "", rk, "", 0)
\* Set[X] = DisplayText(SHELL)="."
SetDisplayC == Src("Set", "X", "", "DisplayText", ".", 0)
\* Set[X] = "y"
SetQuotedC == Src("Set", "X", "", "quoted", "y", 0)
\* Set[X] = Y
SetVarC == Src("Set", "X", "", "var", "Y", 0)
\* FillLines[n]
FillLinesC(n) == Src("FillLines", "", "", "int", "", n)
\* FillLines[Y]
FillLinesVarC == Src("FillLines", "", "", "var", "Y", 0)
\* SetCursor[n, m]
SetCursorC(n, m) == Src2("SetCursor", "", "", "int", "", "", n, m)
\* SetCursor[R, C]
SetCursorVarC == Src2("SetCursor", "", "", "var", "R", "C", 0, 0)
\* DrawBox[n, m] = "#"
DrawBoxC(n, m) == Src2("DrawBox", "", "", "int", "#", "", n, m)
\* DrawBox[W, 1] = "#"
DrawBoxVarC == Src2("DrawBox", "", "", "var", "#", "", 0, 1)
\* SetColor[which] = colour
SetColorC(which, colour) == Src("SetColor", which, "", "", colour, 0)

\* the name f"{p}{s}" of a label declared in the source, f"{p}{n}" of a
\* label numbered by the compiler
Lbl(p, s, n) == [p |-> p, s |-> s, n |-> n]

emit(o, op) == Append(o, op)

add_label_next(lp, o, name) == Put(lp, name, Len(o) + 1)

\* label_positions[name] = len(ops)
add_label(lp, o, name) == Put(lp, name, Len(o))

add_string(st, so, text) ==
    IF text \in DOMAIN st
    THEN [strings |-> st, string_order |-> so, label |-> st[text]]
    ELSE LET label == Lbl("str_", "", Cardinality(DOMAIN st))
         IN  [strings |-> Put(st, text, label), string_order |-> Append(so, text), label |-> label]

add_var(vm, name) == IF name \in DOMAIN vm THEN vm ELSE Put(vm, name, Cardinality(DOMAIN vm))

OpCode(op) == CASE op = "<" -> 0 [] op = "<=" -> 1 [] op = ">" -> 2 [] op = ">=" -> 3

Fn(name, lines) == [name |-> name, lines |-> lines]

CurLines == IF c_unit = 0 THEN c_source.main ELSE c_source.functions[c_unit].lines

Compiling == c_status = "compiling" /\ c_pos < Len(CurLines)

CLine == CurLines[c_pos + 1]

compile_frame == <<store_vars, variables, run_vars, load_vars, boot_vars, save_vars, aux_vars, c_source, c_unit, asm_labels,
                   asm_refs>>

\* raise ValueError: compile_long_to_vm returns nothing
Raise ==
    /\ c_status' = "error"
    /\ UNCHANGED <<c_pos, c_marks, c_units, ops, label_positions, strings, string_order, variables_map,
                   if_stack, loop_stack, if_counter, loop_counter>>

\* --- compile_lines, one action per kind of statement -----------------------
CompileLabel ==
    /\ Compiling /\ CLine.k = "Label"
    /\ label_positions' = add_label(label_positions, ops, Lbl("LBL_", CLine.a, 0))
    /\ c_pos' = c_pos + 1
    /\ c_marks' = Append(c_marks, Len(ops))
    /\ UNCHANGED c_units
    /\ UNCHANGED <<compile_frame, c_status, ops, strings, string_order, variables_map,
                   if_stack, loop_stack, if_counter, loop_counter>>

CompileDisplayText ==
    /\ Compiling /\ CLine.k = "DisplayText"
    /\ LET s == add_string(strings, string_order, CLine.b)
       IN  /\ strings' = s.strings
           /\ string_order' = s.string_order
           /\ ops' = emit(emit(ops, <<"PRINT_STR", s.label>>), <<"NL">>)
    /\ c_pos' = c_pos + 1
    /\ c_marks' = Append(c_marks, Len(ops))
    /\ UNCHANGED c_units
    /\ UNCHANGED <<compile_frame, c_status, label_positions, variables_map,
                   if_stack, loop_stack, if_counter, loop_counter>>

CompileIf ==
    /\ Compiling /\ CLine.k = "If"
    /\ LET left == CLine.a
           if_id == if_counter + 1
           false_label == Lbl("IF_FALSE_", "", if_id)
           end_label == Lbl("IF_END_", "", if_id)
           s == add_string(strings, string_order, CLine.b)
       IN  /\ if_counter' = if_id
           /\ IF CLine.op = "="
              THEN /\ variables_map' = add_var(variables_map, left)
                   /\ strings' = s.strings
                   /\ string_order' = s.string_order
                   /\ ops' = emit(ops, <<"IF_NE_STR", left, s.label, false_label>>)
              ELSE IF CLine.rk = "var"
              THEN /\ variables_map' = add_var(add_var(variables_map, left), CLine.b)
                   /\ ops' = emit(ops, <<"IF_NUM_VV", left, OpCode(CLine.op), CLine.b, false_label>>)
                   /\ UNCHANGED <<strings, string_order>>
              ELSE /\ variables_map' = add_var(variables_map, left)
                   /\ ops' = emit(ops, <<"IF_NUM_VI", left, OpCode(CLine.op), CLine.n, false_label>>)
                   /\ UNCHANGED <<strings, string_order>>
           /\ if_stack' = Append(if_stack, [false_label |-> false_label, end_label |-> end_label,
                                            has_else |-> FALSE])
    /\ c_pos' = c_pos + 1
    /\ c_marks' = Append(c_marks, Len(ops))
    /\ UNCHANGED c_units
    /\ UNCHANGED <<compile_frame, c_status, label_positions, loop_stack, loop_counter>>

CompileElse ==
    /\ Compiling /\ CLine.k = "Else"
    /\ IF Len(if_stack) = 0
       THEN Raise
       ELSE LET entry == if_stack[Len(if_stack)]
            IN  /\ ops' = emit(ops, <<"GOTO", entry.end_label>>)
                /\ label_positions' = add_label(label_positions, ops', entry.false_label)
                /\ if_stack' = [if_stack EXCEPT ![Len(if_stack)].has_else = TRUE]
                /\ c_pos' = c_pos + 1
                /\ c_marks' = Append(c_marks, Len(ops))
                /\ UNCHANGED c_units
                /\ UNCHANGED <<c_status, strings, string_order, variables_map,
                               loop_stack, if_counter, loop_counter>>
    /\ UNCHANGED compile_frame

CompileEndIf ==
    /\ Compiling /\ CLine.k = "EndIf"
    /\ IF Len(if_stack) = 0
       THEN Raise
       ELSE LET entry == if_stack[Len(if_stack)]
            IN  /\ if_stack' = SubSeq(if_stack, 1, Len(if_stack) - 1)
                /\ label_positions' = add_label(label_positions, ops,
                                                IF entry.has_else THEN entry.end_label
                                                ELSE entry.false_label)
                /\ c_pos' = c_pos + 1
                /\ c_marks' = Append(c_marks, Len(ops))
                /\ UNCHANGED c_units
                /\ UNCHANGED <<c_status, ops, strings, string_order, variables_map,
                               loop_stack, if_counter, loop_counter>>
    /\ UNCHANGED compile_frame

CompileLoop ==
    /\ Compiling /\ CLine.k = "Loop"
    /\ LET loop_label == Lbl("LOOP_", "", loop_counter + 1)
       IN  /\ loop_counter' = loop_counter + 1
           /\ label_positions' = add_label(label_positions, ops, loop_label)
           /\ loop_stack' = Append(loop_stack, loop_label)
    /\ c_pos' = c_pos + 1
    /\ c_marks' = Append(c_marks, Len(ops))
    /\ UNCHANGED c_units
    /\ UNCHANGED <<compile_frame, c_status, ops, strings, string_order, variables_map,
                   if_stack, if_counter>>

CompileEndLoop_outermost ==
    /\ Compiling /\ CLine.k = "EndLoop"
    /\ IF Len(loop_stack) = 0
       THEN Raise
       ELSE /\ ops' = emit(ops, <<"GOTO", loop_stack[1]>>)
            /\ loop_stack' = SubSeq(loop_stack, 1, Len(loop_stack) - 1)
            /\ c_pos' = c_pos + 1
            /\ c_marks' = Append(c_marks, Len(ops))
            /\ UNCHANGED c_units
            /\ UNCHANGED <<c_status, label_positions, strings, string_order, variables_map,
                           if_stack, if_counter, loop_counter>>
    /\ UNCHANGED compile_frame

CompileEndLoop ==
    /\ Compiling /\ CLine.k = "EndLoop"
    /\ IF Len(loop_stack) = 0
       THEN Raise
       ELSE /\ ops' = emit(ops, <<"GOTO", loop_stack[Len(loop_stack)]>>)
            /\ loop_stack' = SubSeq(loop_stack, 1, Len(loop_stack) - 1)
            /\ c_pos' = c_pos + 1
            /\ c_marks' = Append(c_marks, Len(ops))
            /\ UNCHANGED c_units
            /\ UNCHANGED <<c_status, label_positions, strings, string_order, variables_map,
                           if_stack, if_counter, loop_counter>>
    /\ UNCHANGED compile_frame

CompileGoto ==
    /\ Compiling /\ CLine.k = "Goto"
    /\ ops' = emit(ops, <<"GOTO", Lbl("LBL_", CLine.a, 0)>>)
    /\ c_pos' = c_pos + 1
    /\ c_marks' = Append(c_marks, Len(ops))
    /\ UNCHANGED c_units
    /\ UNCHANGED <<compile_frame, c_status, label_positions, strings, string_order,
                   variables_map, if_stack, loop_stack, if_counter, loop_counter>>

CompileCallFunction_no_clear ==
    /\ Compiling /\ CLine.k = "CallFunction"
    /\ LET func == CLine.a
           target == CLine.b
           s == add_string(strings, string_order, "")
       IN  IF target # ""
           THEN /\ strings' = s.strings
                /\ string_order' = s.string_order
                /\ variables_map' = add_var(add_var(variables_map, "__RETVAL"), target)
                /\ ops' = emit(emit(ops, <<"CALL", Lbl("FUNC_", func, 0)>>),
                               <<"SET_VAR", target, "__RETVAL">>)
           ELSE /\ ops' = emit(ops, <<"CALL", Lbl("FUNC_", func, 0)>>)
                /\ UNCHANGED <<strings, string_order, variables_map>>
    /\ c_pos' = c_pos + 1
    /\ c_marks' = Append(c_marks, Len(ops))
    /\ UNCHANGED c_units
    /\ UNCHANGED <<compile_frame, c_status, label_positions, if_stack, loop_stack,
                   if_counter, loop_counter>>

CompileCallFunction ==
    /\ Compiling /\ CLine.k = "CallFunction"
    /\ LET func == CLine.a
           target == CLine.b
           s == add_string(strings, string_order, "")
       IN  IF target # ""
           THEN /\ strings' = s.strings
                /\ string_order' = s.string_order
                /\ variables_map' = add_var(add_var(variables_map, "__RETVAL"), target)
                /\ ops' = emit(emit(emit(ops, <<"SET_STR", "__RETVAL", s.label>>),
                                    <<"CALL", Lbl("FUNC_", func, 0)>>),
                               <<"SET_VAR", target, "__RETVAL">>)
           ELSE /\ ops' = emit(ops, <<"CALL", Lbl("FUNC_", func, 0)>>)
                /\ UNCHANGED <<strings, string_order, variables_map>>
    /\ c_pos' = c_pos + 1
    /\ c_marks' = Append(c_marks, Len(ops))
    /\ UNCHANGED c_units
    /\ UNCHANGED <<compile_frame, c_status, label_positions, if_stack, loop_stack,
                   if_counter, loop_counter>>

\* Return[] with no value
CompileReturn ==
    /\ Compiling /\ CLine.k = "Return"
    /\ LET s == add_string(strings, string_order, "")
       IN  /\ strings' = s.strings
           /\ string_order' = s.string_order
           /\ variables_map' = add_var(variables_map, "__RETVAL")
           /\ ops' = emit(emit(ops, <<"SET_STR", "__RETVAL", s.label>>), <<"RET">>)
    /\ c_pos' = c_pos + 1
    /\ c_marks' = Append(c_marks, Len(ops))
    /\ UNCHANGED c_units
    /\ UNCHANGED <<compile_frame, c_status, label_positions, if_stack, loop_stack,
                   if_counter, loop_counter>>

color_map ==
    [key \in {"BLACK", "BLUE", "GREEN", "CYAN", "RED", "MAGENTA", "BROWN", "LIGHTGRAY",
              "DARKGRAY", "LIGHTBLUE", "LIGHTGREEN", "LIGHTCYAN", "LIGHTRED", "LIGHTMAGENTA",
              "YELLOW", "WHITE", "BRIGHTBLACK", "BRIGHTBLUE", "BRIGHTGREEN", "BRIGHTCYAN",
              "BRIGHTRED", "BRIGHTMAGENTA", "BRIGHTYELLOW", "BRIGHTWHITE"} |->
        CASE key = "BLACK" -> 0 [] key = "BLUE" -> 1 [] key = "GREEN" -> 2 [] key = "CYAN" -> 3
          [] key = "RED" -> 4 [] key = "MAGENTA" -> 5 [] key = "BROWN" -> 6
          [] key = "LIGHTGRAY" -> 7 [] key \in {"DARKGRAY", "BRIGHTBLACK"} -> 8
          [] key \in {"LIGHTBLUE", "BRIGHTBLUE"} -> 9
          [] key \in {"LIGHTGREEN", "BRIGHTGREEN"} -> 10
          [] key \in {"LIGHTCYAN", "BRIGHTCYAN"} -> 11
          [] key \in {"LIGHTRED", "BRIGHTRED"} -> 12
          [] key \in {"LIGHTMAGENTA", "BRIGHTMAGENTA"} -> 13
          [] key \in {"YELLOW", "BRIGHTYELLOW"} -> 14
          [] key \in {"WHITE", "BRIGHTWHITE"} -> 15]

CompileSetColor ==
    /\ Compiling /\ CLine.k = "SetColor"
    /\ IF CLine.b \notin DOMAIN color_map
       THEN Raise
       ELSE /\ ops' = emit(ops, <<"SET_COLOR", CLine.a, color_map[CLine.b]>>)
            /\ c_pos' = c_pos + 1
            /\ c_marks' = Append(c_marks, Len(ops))
            /\ UNCHANGED c_units
            /\ UNCHANGED <<c_status, label_positions, strings, string_order, variables_map,
                           if_stack, loop_stack, if_counter, loop_counter>>
    /\ UNCHANGED compile_frame

\* the count is emitted as it is read when it is a run of digits
CompileFillLines ==
    /\ Compiling /\ CLine.k = "FillLines"
    /\ IF CLine.rk # "int"
       THEN Raise
       ELSE /\ ops' = emit(ops, <<"FILL_LINES", CLine.n>>)
            /\ c_pos' = c_pos + 1
            /\ c_marks' = Append(c_marks, Len(ops))
            /\ UNCHANGED c_units
            /\ UNCHANGED <<c_status, label_positions, strings, string_order, variables_map,
                           if_stack, loop_stack, if_counter, loop_counter>>
    /\ UNCHANGED compile_frame

CompileSetCursor ==
    /\ Compiling /\ CLine.k = "SetCursor"
    /\ IF CLine.rk = "int"
       THEN IF CLine.n > 255 \/ CLine.m > 255
            THEN Raise
            ELSE /\ ops' = emit(ops, <<"SET_CURSOR_II", CLine.n, CLine.m>>)
                 /\ c_pos' = c_pos + 1
                 /\ c_marks' = Append(c_marks, Len(ops))
                 /\ UNCHANGED c_units
                 /\ UNCHANGED <<c_status, label_positions, strings, string_order,
                                variables_map, if_stack, loop_stack, if_counter, loop_counter>>
       ELSE /\ variables_map' = add_var(add_var(variables_map, CLine.b), CLine.c)
            /\ ops' = emit(ops, <<"SET_CURSOR_VV", CLine.b, CLine.c>>)
            /\ c_pos' = c_pos + 1
            /\ c_marks' = Append(c_marks, Len(ops))
            /\ UNCHANGED c_units
            /\ UNCHANGED <<c_status, label_positions, strings, string_order,
                           if_stack, loop_stack, if_counter, loop_counter>>
    /\ UNCHANGED compile_frame

\* width and height are emitted as they are read when both are runs of digits
CompileDrawBox ==
    /\ Compiling /\ CLine.k = "DrawBox"
    /\ IF CLine.rk # "int"
       THEN Raise
       ELSE /\ ops' = emit(ops, <<"DRAW_BOX", CLine.n, CLine.m, CLine.b>>)
            /\ c_pos' = c_pos + 1
            /\ c_marks' = Append(c_marks, Len(ops))
            /\ UNCHANGED c_units
            /\ UNCHANGED <<c_status, label_positions, strings, string_order, variables_map,
                           if_stack, loop_stack, if_counter, loop_counter>>
    /\ UNCHANGED compile_frame

\* Math(<`VAR`> +/- <`VAR`|NUMBER>), nothing else
parse_math_expr(line) ==
    IF line.op \notin {"+", "-"} THEN <<"None">>
    ELSE IF line.c # "" THEN <<"VV", line.b, line.op, line.c>>
    ELSE <<"VI", line.b, line.op, line.n>>

\* Set[var_name] = raw_value: a Math(...), a ReadFile[...], a DisplayText(...),
\* a quoted literal, and anything else taken as the name of a variable
CompileSet ==
    /\ Compiling /\ CLine.k = "Set"
    /\ LET var_name == CLine.a
           parsed == parse_math_expr(CLine)
           s == add_string(strings, string_order, CLine.b)
           raw_value == IF CLine.rk = "var" THEN CLine.b ELSE CLine.rk
       IN  IF (CLine.rk = "Math" /\ parsed[1] = "None") \/ CLine.rk = "ReadFile"
           THEN Raise
           ELSE /\ IF CLine.rk = "Math"
                   THEN /\ IF parsed[1] = "VI"
                           THEN /\ variables_map' = add_var(add_var(variables_map, var_name),
                                                             parsed[2])
                                /\ ops' = emit(ops, <<"MATH_VI", var_name, parsed[2], parsed[3],
                                                      parsed[4]>>)
                           ELSE /\ variables_map' =
                                       add_var(add_var(add_var(variables_map, var_name),
                                                       parsed[2]), parsed[4])
                                /\ ops' = emit(ops, <<"MATH_VV", var_name, parsed[2], parsed[3],
                                                      parsed[4]>>)
                        /\ UNCHANGED <<strings, string_order>>
                   ELSE IF CLine.rk = "DisplayText"
                   THEN /\ strings' = s.strings
                        /\ string_order' = s.string_order
                        /\ variables_map' = add_var(variables_map, var_name)
                        /\ ops' = emit(emit(emit(ops, <<"PRINT_STR", s.label>>), <<"NL">>),
                                       <<"SET_STR", var_name, s.label>>)
                   ELSE IF CLine.rk = "quoted"
                   THEN /\ strings' = s.strings
                        /\ string_order' = s.string_order
                        /\ variables_map' = add_var(variables_map, var_name)
                        /\ ops' = emit(ops, <<"SET_STR", var_name, s.label>>)
                   ELSE /\ variables_map' = add_var(add_var(variables_map, var_name), raw_value)
                        /\ ops' = emit(ops, <<"SET_VAR", var_name, raw_value>>)
                        /\ UNCHANGED <<strings, string_order>>
                /\ c_pos' = c_pos + 1
                /\ c_marks' = Append(c_marks, Len(ops))
                /\ UNCHANGED c_units
                /\ UNCHANGED <<c_status, label_positions, if_stack, loop_stack,
                               if_counter, loop_counter>>
    /\ UNCHANGED compile_frame

\* a statement no branch of compile_lines takes
CompileUnsupported ==
    /\ Compiling /\ CLine.k \in UnsupportedKinds
    /\ Raise
    /\ UNCHANGED compile_frame

\* the loop over functions_map with add_label before the RET of the function before
CompileFunction_label_before_ret ==
    /\ c_status = "compiling"
    /\ c_pos = Len(CurLines)
    /\ c_unit < Len(c_source.functions)
    /\ ops' = (IF c_unit > 0 THEN emit(ops, <<"RET">>) ELSE ops)
    /\ label_positions' = add_label(label_positions, ops,
                                    Lbl("FUNC_", c_source.functions[c_unit + 1].name, 0))
    /\ c_unit' = c_unit + 1
    /\ c_pos' = 0
    /\ c_units' = Append(c_units, Len(ops))
    /\ UNCHANGED c_marks
    /\ UNCHANGED <<store_vars, variables, run_vars, load_vars, boot_vars, save_vars, aux_vars, c_source, asm_labels, asm_refs, c_status,
                   strings, string_order, variables_map, if_stack, loop_stack,
                   if_counter, loop_counter>>

\* compile_lines has returned and a function is left: the RET that closes
\* the function just compiled, then the label of the next one
CompileFunction ==
    /\ c_status = "compiling"
    /\ c_pos = Len(CurLines)
    /\ c_unit < Len(c_source.functions)
    /\ ops' = (IF c_unit > 0 THEN emit(ops, <<"RET">>) ELSE ops)
    /\ label_positions' = add_label(label_positions, ops',
                                    Lbl("FUNC_", c_source.functions[c_unit + 1].name, 0))
    /\ c_unit' = c_unit + 1
    /\ c_pos' = 0
    /\ c_units' = Append(c_units, Len(ops))
    /\ UNCHANGED c_marks
    /\ UNCHANGED <<store_vars, variables, run_vars, load_vars, boot_vars, save_vars, aux_vars, c_source, asm_labels, asm_refs, c_status,
                   strings, string_order, variables_map, if_stack, loop_stack,
                   if_counter, loop_counter>>

\* the last stream is compiled: compile_long_to_vm returns
CompileReturned ==
    /\ c_status = "compiling"
    /\ c_pos = Len(CurLines)
    /\ c_unit = Len(c_source.functions)
    /\ ops' = (IF c_unit > 0 THEN emit(ops, <<"RET">>) ELSE ops)
    /\ c_status' = "returned"
    /\ c_units' = Append(c_units, Len(ops))
    /\ UNCHANGED <<compile_frame, c_pos, c_marks, label_positions, strings, string_order, variables_map,
                   if_stack, loop_stack, if_counter, loop_counter>>

JumpOps == {"GOTO", "CALL", "IF_NE_STR", "IF_NUM_VI", "IF_NUM_VV"}

\* the label operand of a jump op
OpLabel(op) ==
    IF op[1] \in {"GOTO", "CALL"} THEN op[2]
    ELSE IF op[1] = "IF_NE_STR" THEN op[4]
    ELSE op[5]

\* build_vm_program_asm: a "name:" line for every label whose index is one
\* of 0..len(ops), and a dw with the label's name for every label operand
build_vm_program_asm ==
    /\ c_status = "returned"
    /\ asm_labels' = {l \in DOMAIN label_positions : label_positions[l] \in 0..Len(ops)}
    /\ asm_refs' = {OpLabel(ops[i]) : i \in {j \in 1..Len(ops) : ops[j][1] \in JumpOps}}
    /\ c_status' = "built"
    /\ UNCHANGED <<store_vars, variables, run_vars, load_vars, boot_vars, save_vars, aux_vars, c_source, c_unit, c_pos, c_marks, c_units, ops, label_positions,
                   strings, string_order, variables_map, if_stack, loop_stack,
                   if_counter, loop_counter>>

\* --- the sources the compiler is run on ------------------------------------
MainTokens == {DisplayC, LabelC("L"), GotoC("L"), IfEqC, IfNumC, IfVarC, ElseC, EndIfC,
               LoopC, EndLoopC, CallC("F")}

MainStreams == UNION {[1..n -> MainTokens] : n \in 0..MaxSrc}

FunctionMaps ==
    {<<>>,
     <<Fn("F", <<DisplayC>>)>>,
     <<Fn("F", <<GotoC("M")>>)>>,
     <<Fn("F", <<CallToC("G", "R"), ReturnC>>)>>,
     <<Fn("F", <<OtherC>>)>>,
     <<Fn("F", <<IfEqC>>), Fn("G", <<EndIfC>>)>>}

CompileSources == {[main |-> m, functions |-> f] : m \in MainStreams, f \in FunctionMaps}

\* nested If blocks, with and without Else, in the main stream and in a
\* function body
NestedIfSources ==
    {[main |-> m, functions |-> f] :
        m \in {<<IfEqC, DisplayC, IfNumC, DisplayC, ElseC, DisplayC, EndIfC, ElseC, DisplayC, EndIfC,
                 DisplayC>>,
               <<IfVarC, IfEqC, EndIfC, DisplayC, EndIfC, IfEqC, ElseC, EndIfC>>,
               <<LoopC, IfEqC, DisplayC, ElseC, LoopC, DisplayC, EndLoopC, EndIfC, EndLoopC>>,
               <<DisplayC>>},
        f \in {<<>>,
               <<Fn("F", <<IfEqC, IfEqC, DisplayC, EndIfC, ElseC, DisplayC, EndIfC>>)>>}}

\* the operands around the largest 8-bit and 16-bit values
ByteOperands == {0, ByteMax, ByteMax + 1}
WordOperands == {0, WordMax, WordMax + 1}

StatementTokens ==
    {UnsupportedC(k) : k \in UnsupportedKinds}
        \cup {SetUseC(rk) : rk \in {"ReadFile", "Random", "Time", "FS"}}
        \cup {SetMathVIC(op, n) : op \in {"+", "-", "*"}, n \in WordOperands}
        \cup {SetMathVVC("+"), SetDisplayC, SetQuotedC, SetVarC, FillLinesVarC, SetCursorVarC,
              DrawBoxVarC, SetColorC("FG", "WHITE"), SetColorC("BG", "BLACK"),
              SetColorC("FG", "PINK")}
        \cup {IfImmC(n) : n \in WordOperands}
        \cup {FillLinesC(n) : n \in ByteOperands}
        \cup {SetCursorC(n, m) : n \in ByteOperands, m \in ByteOperands}
        \cup {DrawBoxC(n, m) : n \in ByteOperands, m \in ByteOperands}

\* one of these statements alone, before or after another statement, in and
\* after an If block, and in a function body
StatementSources ==
    {[main |-> m, functions |-> <<>>] :
        m \in UNION {{<<t>>, <<t, DisplayC>>, <<DisplayC, t>>, <<IfEqC, t, EndIfC, t>>} :
                        t \in StatementTokens}}
        \cup {[main |-> <<CallC("F")>>, functions |-> <<Fn("F", <<t>>)>>] : t \in StatementTokens}

\* at the call of compile_long_to_vm
InitCompile ==
    /\ StoreInit
    /\ BootIdle
    /\ SaveIdle
    /\ AuxIdle
    /\ LoadIdle
    /\ variables = EmptyMap
    /\ RunIdle
    /\ (c_source \in CompileSources \/ c_source \in NestedIfSources
           \/ c_source \in StatementSources)
    /\ c_unit = 0
    /\ c_pos = 0
    /\ c_marks = <<>>
    /\ c_units = <<>>
    /\ c_status = "compiling"
    /\ ops = <<>>
    /\ label_positions = EmptyMap
    /\ strings = EmptyMap
    /\ string_order = <<>>
    /\ variables_map = EmptyMap
    /\ if_stack = <<>>
    /\ loop_stack = <<>>
    /\ if_counter = 0
    /\ loop_counter = 0
    /\ asm_labels = {}
    /\ asm_refs = {}

NextCompile ==
    \/ CompileLabel
    \/ CompileDisplayText
    \/ CompileIf
    \/ CompileElse
    \/ CompileEndIf
    \/ CompileLoop
    \/ CompileEndLoop
    \/ CompileGoto
    \/ CompileCallFunction
    \/ CompileReturn
    \/ CompileSetColor
    \/ CompileFillLines
    \/ CompileSetCursor
    \/ CompileDrawBox
    \/ CompileSet
    \/ CompileUnsupported
    \/ CompileFunction
    \/ CompileReturned
    \/ build_vm_program_asm

SpecCompile == InitCompile /\ [][NextCompile]_vars

\* ------------------------------------------------------------------------
\* The boot image (longc.py): compile_to_boot_sector
\* ------------------------------------------------------------------------
\* boot.pc is the position in compile_to_boot_sector, boot.exit the exit
\* status of the process (-1 while it runs), boot.out the output file and
\* boot.before what it was at the call.  boot.log is the history of the
\* steps that succeeded and boot.failed the failure met, if any.
\* boot.stage1_equ is the count written in the STAGE2_SECTORS equate of
\* build/boot_stage1.asm (0 while that file is not written).  A file is
\* a sequence of runs of bytes: the stage-1 binary, the stage-2 binary, and
\* runs of zero bytes.
SectorSize == 512
FloppySize == 1474560

Run(kind, len) == [kind |-> kind, len |-> len]

RECURSIVE ByteLen(_)
ByteLen(bytes) == IF bytes = <<>> THEN 0 ELSE Head(bytes).len + ByteLen(Tail(bytes))

\* bytes.ljust(width, b"\x00")
ljust(bytes, width) ==
    IF ByteLen(bytes) < width THEN Append(bytes, Run("zero", width - ByteLen(bytes))) ELSE bytes

\* the lengths nasm gives the two binaries: stage-1 is the boot sector, the
\* length of stage-2 follows the program
Stage1Sizes == {SectorSize}
Stage2Sizes == {0, 1, SectorSize - 1, SectorSize, SectorSize + 1, 3 * SectorSize,
                FloppySize - SectorSize, FloppySize - SectorSize + 1, FloppySize}

\* subprocess.run of nasm: FileNotFoundError, a non-zero return code, or 0
NasmOutcomes == {"missing", "failed", "ok"}

\* where text.find has found the two markers of the stage-2 template
MarkerPositions == {<<-1, -1>>, <<-1, 3>>, <<3, -1>>, <<7, 3>>, <<3, 7>>}

\* replace_section raises ValueError
MarkersNotFound(start_idx, end_idx) == start_idx = -1 \/ end_idx = -1 \/ end_idx < start_idx

\* sys.exit(1)
BootExit(why) == boot' = [boot EXCEPT !.pc = "exit", !.exit = 1, !.failed = why]

\* the source file is looked for, read by parse_long_source and given to
\* compile_long_to_vm
BootStart ==
    /\ boot.pc = "start"
    /\ \E isfile \in BOOLEAN :
          IF ~isfile
          THEN BootExit("no source") /\ UNCHANGED c_status
          ELSE /\ boot' = [boot EXCEPT !.pc = "compile"]
               /\ c_status' = "compiling"
    /\ UNCHANGED <<store_vars, variables, run_vars, load_vars, save_vars, aux_vars, c_source, c_unit, c_pos,
                   c_marks, c_units, ops, label_positions, strings, string_order, variables_map, if_stack, loop_stack,
                   if_counter, loop_counter, asm_labels, asm_refs>>

\* compile_long_to_vm has raised ValueError
BootCompileError ==
    /\ boot.pc = "compile"
    /\ c_status = "error"
    /\ BootExit("compile error")
    /\ UNCHANGED <<store_vars, variables, run_vars, load_vars, comp_vars, save_vars, aux_vars>>

\* the listing is placed between the markers of boot/boot_stage2.asm and
\* written to build/boot_stage2.asm
BootReplaceSection ==
    /\ boot.pc = "compile"
    /\ c_status = "built"
    /\ \E found \in MarkerPositions :
          IF MarkersNotFound(found[1], found[2])
          THEN BootExit("no marker")
          ELSE boot' = [boot EXCEPT !.pc = "nasm2", !.log = <<"compile", "replace">>]
    /\ UNCHANGED <<store_vars, variables, run_vars, load_vars, comp_vars, save_vars, aux_vars>>

stage2_sectors_floor(stage2_size) ==
    IF stage2_size \div SectorSize = 0 THEN 1 ELSE stage2_size \div SectorSize

\* (stage2_size + 511) // 512, and 1 when that is 0
stage2_sectors(stage2_size) ==
    IF (stage2_size + 511) \div SectorSize = 0 THEN 1 ELSE (stage2_size + 511) \div SectorSize

\* nasm on build/boot_stage2.asm; then the size of the binary, the sector
\* count, and the stage-1 text with the count in its equate
BootAssembleStage2 ==
    /\ boot.pc = "nasm2"
    /\ \E res \in NasmOutcomes, size \in Stage2Sizes :
          IF res # "ok"
          THEN BootExit(IF res = "missing" THEN "nasm missing" ELSE "nasm failed")
          ELSE boot' = [boot EXCEPT !.pc = "nasm1",
                                    !.log = Append(@, "stage2"),
                                    !.stage2_size = size,
                                    !.stage2_sectors = stage2_sectors(size),
                                    !.stage1_equ = stage2_sectors(size)]
    /\ UNCHANGED <<store_vars, variables, run_vars, load_vars, comp_vars, save_vars, aux_vars>>

BootAssembleStage1_ignore_exit ==
    /\ boot.pc = "nasm1"
    /\ \E res \in NasmOutcomes, size \in Stage1Sizes :
          IF res = "missing"
          THEN BootExit("nasm missing")
          ELSE boot' = [boot EXCEPT !.pc = "write",
                                    !.log = Append(@, "stage1"),
                                    !.failed = IF res = "failed" THEN "nasm failed" ELSE @,
                                    !.stage1_size = size]
    /\ UNCHANGED <<store_vars, variables, run_vars, load_vars, comp_vars, save_vars, aux_vars>>

\* nasm on build/boot_stage1.asm
BootAssembleStage1 ==
    /\ boot.pc = "nasm1"
    /\ \E res \in NasmOutcomes, size \in Stage1Sizes :
          IF res # "ok"
          THEN BootExit(IF res = "missing" THEN "nasm missing" ELSE "nasm failed")
          ELSE boot' = [boot EXCEPT !.pc = "write",
                                    !.log = Append(@, "stage1"),
                                    !.stage1_size = size]
    /\ UNCHANGED <<store_vars, variables, run_vars, load_vars, comp_vars, save_vars, aux_vars>>

\* stage-1, then stage-2 padded to its sectors, padded to the floppy size
\* when shorter, written to the output file
BootWriteImage ==
    /\ boot.pc = "write"
    /\ LET stage1_bin == <<Run("stage1", boot.stage1_size)>>
           stage2_bin == <<Run("stage2", boot.stage2_size)>>
           padded_stage2 == ljust(stage2_bin, boot.stage2_sectors * SectorSize)
           boot_img == stage1_bin \o padded_stage2
       IN  boot' = [boot EXCEPT !.pc = "done",
                                !.exit = 0,
                                !.log = Append(@, "write"),
                                !.out = [exists |-> TRUE, bytes |-> ljust(boot_img, FloppySize)]]
    /\ UNCHANGED <<store_vars, variables, run_vars, load_vars, comp_vars, save_vars, aux_vars>>

\* a file that is at the output path before the call
OldFile == [exists |-> TRUE, bytes |-> <<Run("old", 7)>>]

\* the programs given to compile_to_boot_sector
BootSources ==
    {[main |-> <<LabelC("L"), DisplayC, IfEqC, DisplayC, ElseC, GotoC("L"), EndIfC, LoopC,
                 CallToC("F", "R"), SetColorC("FG", "WHITE"), FillLinesC(0), SetCursorC(0, 0),
                 DrawBoxC(1, 1), SetQuotedC, EndLoopC>>,
      functions |-> <<Fn("F", <<ReturnC>>)>>],
     [main |-> <<DisplayC>>, functions |-> <<>>],
     [main |-> <<DisplayC, OtherC>>, functions |-> <<>>],
     [main |-> <<SetMathVIC("*", 0)>>, functions |-> <<>>],
     [main |-> <<EndIfC>>, functions |-> <<>>]}

\* at the call of compile_to_boot_sector
InitBoot ==
    /\ StoreInit
    /\ SaveIdle
    /\ AuxIdle
    /\ LoadIdle
    /\ variables = EmptyMap
    /\ RunIdle
    /\ \E before \in {NoFile, OldFile} :
          boot = [pc |-> "start", exit |-> -1, stage2_size |-> 0, stage2_sectors |-> 0,
                  stage1_equ |-> 0, stage1_size |-> 0, out |-> before,
                  before |-> before, log |-> <<>>, failed |-> ""]
    /\ c_source \in BootSources
    /\ c_unit = 0
    /\ c_pos = 0
    /\ c_marks = <<>>
    /\ c_units = <<>>
    /\ c_status = "idle"
    /\ ops = <<>>
    /\ label_positions = EmptyMap
    /\ strings = EmptyMap
    /\ string_order = <<>>
    /\ variables_map = EmptyMap
    /\ if_stack = <<>>
    /\ loop_stack = <<>>
    /\ if_counter = 0
    /\ loop_counter = 0
    /\ asm_labels = {}
    /\ asm_refs = {}

NextBoot ==
    \/ BootStart
    \/ NextCompile
    \/ BootCompileError
    \/ BootReplaceSection
    \/ BootAssembleStage2
    \/ BootAssembleStage1
    \/ BootWriteImage

SpecBoot == InitBoot /\ [][NextBoot]_vars

\* ------------------------------------------------------------------------
\* Properties of the compiler
\* ------------------------------------------------------------------------
\* C4: when compile_long_to_vm returns, the label operand of every GOTO,
\* CALL, IF_NE_STR, IF_NUM_VI and IF_NUM_VV op is a key of label_positions
\* and its value is one of 0..len(ops), whatever the source: a Goto to a
\* label that is not declared and a CallFunction of a function that is not
\* defined included.
C4_LabelOperandsResolve ==
    c_status \in {"returned", "built"} =>
        \A i \in 1..Len(ops) :
            ops[i][1] \in JumpOps =>
                /\ OpLabel(ops[i]) \in DOMAIN label_positions
                /\ label_positions[OpLabel(ops[i])] \in 0..Len(ops)

\* ------------------------------------------------------------------------
\* The loaders: load_program (longi.py) and parse_long_source (longc.py)
\* ------------------------------------------------------------------------
\* longest source file
MaxRaw == 4

\* StartFunction[f]
StartFunctionL(f) == Stmt("StartFunction", f, <<>>)
EndFunctionL == Stmt("EndFunction", "", <<>>)
\* a line that is empty, or a comment, once stripped
CommentL == Stmt("Comment", "", <<>>)

RawTokens == {DisplayL, LabelL("L"), StartFunctionL("F"), StartFunctionL("G"), EndFunctionL,
              CommentL}

RawFiles == UNION {[1..n -> RawTokens] : n \in 0..MaxRaw}

\* what the loaders leave alone
load_frame == <<store_vars, variables, comp_vars, boot_vars, save_vars, aux_vars, source, current_line, stack, status, restored,
                executed, ifres, last, sites, site, hardware_log>>

\* the file load_program reads
LoadFile == IF load.status \in {"reloading", "reloaded"} THEN written ELSE raw_lines

Loading == load.status \in {"loading", "reloading"} /\ load.pos < Len(LoadFile)

RawLine == LoadFile[load.pos + 1]

\* --- load_program, one action per branch of its loop ------------------------
LoadSkip ==
    /\ Loading /\ RawLine.k = "Comment"
    /\ load' = [load EXCEPT !.pos = load.pos + 1]
    /\ UNCHANGED <<load_frame, program_lines, labels, functions, raw_lines, written, first_load, parse>>

LoadStartFunction ==
    /\ Loading /\ RawLine.k = "StartFunction"
    /\ load' = [load EXCEPT !.pos = load.pos + 1, !.in_function = TRUE, !.current_func = RawLine.a]
    /\ functions' = Put(functions, RawLine.a, <<>>)
    /\ UNCHANGED <<load_frame, program_lines, labels, raw_lines, written, first_load, parse>>

LoadEndFunction ==
    /\ Loading /\ RawLine.k = "EndFunction"
    /\ load' = [load EXCEPT !.pos = load.pos + 1, !.in_function = FALSE, !.current_func = ""]
    /\ UNCHANGED <<load_frame, program_lines, labels, functions, raw_lines, written, first_load, parse>>

LoadFunctionLine ==
    /\ Loading /\ RawLine.k \notin {"Comment", "StartFunction", "EndFunction"}
    /\ load.in_function
    /\ functions' = Put(functions, load.current_func, Append(functions[load.current_func], RawLine))
    /\ load' = [load EXCEPT !.pos = load.pos + 1]
    /\ UNCHANGED <<load_frame, program_lines, labels, raw_lines, written, first_load, parse>>

LabelIndex_raw(main) == load.pos

\* len(program_lines) before the append
LabelIndex(main) == Len(main)

LoadMainLine ==
    /\ Loading /\ RawLine.k \notin {"Comment", "StartFunction", "EndFunction"}
    /\ ~load.in_function
    /\ labels' = (IF RawLine.k = "Label" THEN Put(labels, RawLine.a, LabelIndex(program_lines))
                  ELSE labels)
    /\ program_lines' = Append(program_lines, RawLine)
    /\ load' = [load EXCEPT !.pos = load.pos + 1]
    /\ UNCHANGED <<load_frame, functions, raw_lines, written, first_load, parse>>

\* the loop has taken the last line: load_program returns
LoadDone ==
    /\ load.status \in {"loading", "reloading"}
    /\ load.pos = Len(LoadFile)
    /\ load' = [load EXCEPT !.status = (IF load.status = "loading" THEN "loaded" ELSE "reloaded")]
    /\ UNCHANGED <<load_frame, program_lines, labels, functions, raw_lines, written, first_load, parse>>

WrittenFile_without_labels(main) == SelectSeq(main, LAMBDA l : l.k # "Label")

\* the file holding the filtered main stream, one statement per line
WrittenFile(main) == main

\* the filtered main stream is written to a file, one line each, and
\* load_program is called on that file
WriteBackAndReload ==
    /\ load.status = "loaded"
    /\ first_load' = [program_lines |-> program_lines, labels |-> labels, functions |-> functions]
    /\ written' = WrittenFile(program_lines)
    /\ program_lines' = <<>>
    /\ labels' = EmptyMap
    /\ functions' = EmptyMap
    /\ load' = [pos |-> 0, in_function |-> FALSE, current_func |-> "", status |-> "reloading"]
    /\ UNCHANGED <<load_frame, raw_lines, parse>>

\* --- parse_long_source, one action per branch of its loop -------------------
Parsing == parse.status = "parsing" /\ parse.pos < Len(raw_lines)

ParseLine == raw_lines[parse.pos + 1]

parse_frame == <<load_frame, program_lines, labels, functions, raw_lines, load, written, first_load>>

ParseSkip ==
    /\ Parsing /\ ParseLine.k = "Comment"
    /\ parse' = [parse EXCEPT !.pos = parse.pos + 1]
    /\ UNCHANGED parse_frame

ParseStartFunction ==
    /\ Parsing /\ ParseLine.k = "StartFunction"
    /\ parse' = [parse EXCEPT !.pos = parse.pos + 1,
                              !.in_function = TRUE,
                              !.current_func = ParseLine.a,
                              !.functions_map = Put(parse.functions_map, ParseLine.a, <<>>),
                              !.names = IF ParseLine.a \in DOMAIN parse.functions_map
                                        THEN parse.names ELSE Append(parse.names, ParseLine.a)]
    /\ UNCHANGED parse_frame

ParseEndFunction ==
    /\ Parsing /\ ParseLine.k = "EndFunction"
    /\ parse' = [parse EXCEPT !.pos = parse.pos + 1, !.in_function = FALSE, !.current_func = ""]
    /\ UNCHANGED parse_frame

ParseFunctionLine ==
    /\ Parsing /\ ParseLine.k \notin {"Comment", "StartFunction", "EndFunction"}
    /\ parse.in_function
    /\ parse' = [parse EXCEPT !.pos = parse.pos + 1,
                              !.functions_map = Put(parse.functions_map, parse.current_func,
                                  Append(parse.functions_map[parse.current_func], ParseLine))]
    /\ UNCHANGED parse_frame

ParseMainLine ==
    /\ Parsing /\ ParseLine.k \notin {"Comment", "StartFunction", "EndFunction"}
    /\ ~parse.in_function
    /\ parse' = [parse EXCEPT !.pos = parse.pos + 1, !.main_lines = Append(parse.main_lines, ParseLine)]
    /\ UNCHANGED parse_frame

\* parse_long_source returns main_lines and functions_map
ParseDone ==
    /\ parse.status = "parsing"
    /\ parse.pos = Len(raw_lines)
    /\ parse' = [parse EXCEPT !.status = "parsed"]
    /\ UNCHANGED parse_frame

\* at the call of load_program (a run of longi.py) or of parse_long_source
\* (a run of longc.py) on a source file
InitLoad ==
    /\ StoreInit
    /\ BootIdle
    /\ SaveIdle
    /\ AuxIdle
    /\ variables = EmptyMap
    /\ RunIdle
    /\ CompileIdle
    /\ raw_lines \in RawFiles
    /\ written = <<>>
    /\ first_load = NoLoad
    /\ \E interpreter \in BOOLEAN :
        /\ load = [pos |-> 0, in_function |-> FALSE, current_func |-> "",
                   status |-> IF interpreter THEN "loading" ELSE "idle"]
        /\ parse = [pos |-> 0, in_function |-> FALSE, current_func |-> "",
                    status |-> IF interpreter THEN "idle" ELSE "parsing",
                    main_lines |-> <<>>, functions_map |-> EmptyMap, names |-> <<>>]

NextLoad ==
    \/ LoadSkip
    \/ LoadStartFunction
    \/ LoadEndFunction
    \/ LoadFunctionLine
    \/ LoadMainLine
    \/ LoadDone
    \/ WriteBackAndReload
    \/ ParseSkip
    \/ ParseStartFunction
    \/ ParseEndFunction
    \/ ParseFunctionLine
    \/ ParseMainLine
    \/ ParseDone

SpecLoad == InitLoad /\ [][NextLoad]_vars

\* ------------------------------------------------------------------------
\* Properties of the loaders
\* ------------------------------------------------------------------------
IsMarker(l) == l.k \in {"StartFunction", "EndFunction"}

IsStatement(l) == l.k \notin {"Comment", "StartFunction", "EndFunction"}

\* the StartFunction line whose body line i of the file lies in: the nearest
\* StartFunction/EndFunction marker before i when that is a StartFunction,
\* 0 when line i lies outside every function body
OpenMarker(raw, i) ==
    LET ms == {j \in 1..(i - 1) : IsMarker(raw[j])}
    IN  IF ms = {} THEN 0
        ELSE LET m == CHOOSE j \in ms : \A x \in ms : x <= j
             IN  IF raw[m].k = "StartFunction" THEN m ELSE 0

RECURSIVE Gather(_, _, _)
\* the lines of raw at the positions in S, from position i on, in file order
Gather(raw, S, i) ==
    IF i > Len(raw) THEN <<>>
    ELSE (IF i \in S THEN <<raw[i]>> ELSE <<>>) \o Gather(raw, S, i + 1)

\* the statements between the StartFunction at line m and the next marker
BodyOf(raw, m) ==
    Gather(raw, {i \in 1..Len(raw) : IsStatement(raw[i]) /\ OpenMarker(raw, i) = m}, 1)

\* the statements outside every function body
MainOf(raw) ==
    Gather(raw, {i \in 1..Len(raw) : IsStatement(raw[i]) /\ OpenMarker(raw, i) = 0}, 1)

RECURSIVE IsSubseq(_, _)
\* the elements of s appear in t in the same order
IsSubseq(s, t) ==
    IF s = <<>> THEN TRUE
    ELSE IF t = <<>> THEN FALSE
    ELSE IF Head(s) = Head(t) THEN IsSubseq(Tail(s), Tail(t))
    ELSE IsSubseq(s, Tail(t))

StartFunctions(raw) == {m \in 1..Len(raw) : raw[m].k = "StartFunction"}

\* the last StartFunction line of the file that names f
LastStart(raw, f) ==
    CHOOSE m \in StartFunctions(raw) :
        /\ raw[m].a = f
        /\ \A x \in StartFunctions(raw) : raw[x].a = f => x <= m

\* no StartFunction line lies inside an open function body
NoNesting(raw) == \A m \in StartFunctions(raw) : OpenMarker(raw, m) = 0

\* every recorded label indexes its own Label statement in the filtered
\* stream, and only main-stream labels are recorded
LabelsIndexMainStream ==
    /\ \A n \in DOMAIN labels :
        /\ labels[n] \in 0..(Len(program_lines) - 1)
        /\ program_lines[labels[n] + 1] = LabelL(n)
    /\ DOMAIN labels = {l.a : l \in {x \in Range(program_lines) : x.k = "Label"}}
    /\ program_lines = MainOf(LoadFile)

\* C16 as stated (on files without nested StartFunction, which C17 treats):
\* after load_program every recorded label indexes its own
\* Label statement in the filtered main stream, the lines of every
\* StartFunction[F] .. EndFunction block are kept out of the main stream
\* and appear in order in functions[F], and labels inside a function body
\* are not recorded.
C16_LoaderIndexesFilteredStream ==
    (load.status \in {"loaded", "reloaded"} /\ NoNesting(LoadFile)) =>
        /\ LabelsIndexMainStream
        /\ \A m \in StartFunctions(LoadFile) :
            /\ LoadFile[m].a \in DOMAIN functions
            /\ IsSubseq(BodyOf(LoadFile, m), functions[LoadFile[m].a])

\* C16 amended: as above for the labels and the main stream; functions[F]
\* holds, in order, exactly the lines of the last StartFunction[F] block of
\* the file (an earlier block of the same name is discarded).
C16_LoaderKeepsLastBlock ==
    load.status \in {"loaded", "reloaded"} =>
        /\ LabelsIndexMainStream
        /\ DOMAIN functions = {LoadFile[m].a : m \in StartFunctions(LoadFile)}
        /\ \A f \in DOMAIN functions :
            functions[f] = BodyOf(LoadFile, LastStart(LoadFile, f))

\* a load has finished on a file whose function body precedes a label, so
\* the label's index in the filtered stream differs from its file position
C16_Witness ==
    /\ load.status = "loaded"
    /\ \E f \in DOMAIN functions : functions[f] # <<>>
    /\ \E n \in DOMAIN labels : \E i \in 1..Len(raw_lines) :
        raw_lines[i] = LabelL(n) /\ labels[n] + 1 < i

\* C17: on a file in which a StartFunction line appears while a function
\* body is still open, neither load_program nor parse_long_source returns:
\* both fail with a load error and produce no function map.
C17_NestedFunctionFails ==
    ~NoNesting(raw_lines) =>
        /\ load.status \notin {"loaded", "reloading", "reloaded"}
        /\ parse.status # "parsed"

\* C18 as stated: loading a file, writing the filtered main stream back and
\* loading that file again yields the same filtered stream, the same labels
\* map and the same functions map as the first load.
C18_ReloadYieldsSameLoad ==
    load.status = "reloaded" =>
        /\ program_lines = first_load.program_lines
        /\ labels = first_load.labels
        /\ DOMAIN functions = DOMAIN first_load.functions
        /\ \A f \in DOMAIN functions : functions[f] = first_load.functions[f]

\* C18 amended: the second load yields the same filtered stream and the
\* same labels map as the first; its functions map is empty, so it equals
\* the first load's map only when the source defines no function.
C18_ReloadKeepsStreamAndLabels ==
    load.status = "reloaded" =>
        /\ program_lines = first_load.program_lines
        /\ labels = first_load.labels
        /\ DOMAIN functions = {}

\* a file with a label and a non-empty function body has been loaded,
\* written back and loaded again
C18_Witness ==
    /\ load.status = "reloaded"
    /\ DOMAIN first_load.labels # {}
    /\ \E f \in DOMAIN first_load.functions : first_load.functions[f] # <<>>
    /\ program_lines # <<>>

\* ------------------------------------------------------------------------
\* Properties of the compiler's block checks
\* ------------------------------------------------------------------------
\* C19: compile_long_to_vm never returns an op stream while if_stack or
\* loop_stack is non-empty: an If without EndIf or a Loop[FOREVER] without
\* EndLoop at the end of a stream is a compile error.
C19_UnclosedBlockFails ==
    c_status \in {"returned", "built"} => (if_stack = <<>> /\ loop_stack = <<>>)

RECURSIVE OpenBefore(_, _, _, _)
\* the number of `open` statements among the first i lines that no `close`
\* statement among those lines has closed
OpenBefore(lines, i, open, close) ==
    IF i = 0 THEN 0
    ELSE LET d == OpenBefore(lines, i - 1, open, close)
         IN  IF lines[i].k = open THEN d + 1
             ELSE IF lines[i].k = close /\ d > 0 THEN d - 1
             ELSE d

\* line i is an Else or EndIf with no unclosed If before it in its stream,
\* or an EndLoop with no unclosed Loop[FOREVER] before it in its stream
UnmatchedAt(lines, i) ==
    \/ lines[i].k \in {"Else", "EndIf"} /\ OpenBefore(lines, i - 1, "If", "EndIf") = 0
    \/ lines[i].k = "EndLoop" /\ OpenBefore(lines, i - 1, "Loop", "EndLoop") = 0

\* the main stream, then the function bodies in the order they are compiled
StreamsOf(src) == <<src.main>> \o [u \in 1..Len(src.functions) |-> src.functions[u].lines]

HasUnmatched(src) ==
    \E u \in 1..Len(StreamsOf(src)) : \E i \in 1..Len(StreamsOf(src)[u]) :
        UnmatchedAt(StreamsOf(src)[u], i)

\* C20: when the main stream or a function body holds an Else or EndIf with
\* no preceding unclosed If in the same stream, or an EndLoop with no
\* preceding unclosed Loop[FOREVER] in the same stream, compile_long_to_vm
\* raises a compile error: it does not return an op stream.
C20_UnmatchedCloserFails ==
    HasUnmatched(c_source) => c_status \notin {"returned", "built"}

\* ------------------------------------------------------------------------
\* Properties of the emitted op stream
\* ------------------------------------------------------------------------
RECURSIVE Flatten(_, _)
\* the streams from the u-th on, one after the other
Flatten(streams, u) ==
    IF u > Len(streams) THEN <<>> ELSE streams[u] \o Flatten(streams, u + 1)

\* the lines of a source in the order compile_long_to_vm takes them
FlatLines(src) == Flatten(StreamsOf(src), 1)

AllWellFormed(src) == \A u \in 1..Len(StreamsOf(src)) : WellFormed(StreamsOf(src)[u])

\* the If at index j (0-based) is the k-th If taken
IfNumber(lines, j) == Cardinality({m \in 0..j : lines[m + 1].k = "If"})

IfOps == {"IF_NE_STR", "IF_NUM_VI", "IF_NUM_VV"}

\* the op at index i (0-based) is GOTO label
IsGoto(i, label) == i < Len(ops) /\ ops[i + 1][1] = "GOTO" /\ ops[i + 1][2] = label

\* label resolves to index i
ResolvesTo(label, i) == label \in DOMAIN label_positions /\ label_positions[label] = i

\* C21: when compile_long_to_vm returns for a source whose If blocks are
\* well formed, the k-th If has emitted an IF_* op that targets IF_FALSE_k;
\* with an Else, the Else has emitted GOTO IF_END_k, IF_FALSE_k resolves to
\* the index right after that GOTO and IF_END_k to the index of the first
\* op after the EndIf; without an Else, IF_FALSE_k resolves to the index
\* of the first op after the EndIf.
C21_IfLabelsResolve ==
    (c_status \in {"returned", "built"} /\ AllWellFormed(c_source)) =>
        LET F == FlatLines(c_source)
        IN  /\ Len(c_marks) = Len(F)
            /\ \A j \in 0..(Len(F) - 1) :
                F[j + 1].k = "If" =>
                    LET k == IfNumber(F, j)
                        false_label == Lbl("IF_FALSE_", "", k)
                        end_label == Lbl("IF_END_", "", k)
                        d == EndIfOf(F, j)
                        es == ElsesOf(F, j)
                    IN  /\ c_marks[j + 1] < Len(ops)
                        /\ ops[c_marks[j + 1] + 1][1] \in IfOps
                        /\ OpLabel(ops[c_marks[j + 1] + 1]) = false_label
                        /\ IF es # {}
                           THEN LET e == CHOOSE x \in es : TRUE
                                IN  /\ IsGoto(c_marks[e + 1], end_label)
                                    /\ ResolvesTo(false_label, c_marks[e + 1] + 1)
                                    /\ ResolvesTo(end_label, c_marks[d + 1])
                           ELSE ResolvesTo(false_label, c_marks[d + 1])

\* a source with an If nested in an If, both with an Else and ops in every
\* branch, has been compiled
C21_Witness ==
    /\ c_status = "returned"
    /\ AllWellFormed(c_source)
    /\ \E j \in 0..(Len(c_source.main) - 1) :
        /\ c_source.main[j + 1].k = "If"
        /\ Depth(c_source.main, j) = 1
        /\ ElsesOf(c_source.main, j) # {}
        /\ \A i \in IfsAround(c_source.main, j) : ElsesOf(c_source.main, i) # {}
    /\ Lbl("IF_END_", "", 2) \in DOMAIN label_positions
    /\ label_positions[Lbl("IF_END_", "", 2)] < label_positions[Lbl("IF_END_", "", 1)]

\* number of Loops open after the first k lines
LoopDepth(lines, k) ==
    Cardinality({j \in 1..k : lines[j].k = "Loop"}) - Cardinality({j \in 1..k : lines[j].k = "EndLoop"})

\* the innermost Loop still open at the EndLoop at index j (0-based)
LoopOf(lines, j) ==
    CHOOSE l \in 0..(j - 1) :
        /\ lines[l + 1].k = "Loop"
        /\ LoopDepth(lines, l) = LoopDepth(lines, j + 1)
        /\ \A m \in (l + 1)..(j - 1) :
              ~(lines[m + 1].k = "Loop" /\ LoopDepth(lines, m) = LoopDepth(lines, j + 1))

HasLoopOf(lines, j) ==
    \E l \in 0..(j - 1) : lines[l + 1].k = "Loop" /\ LoopDepth(lines, l) = LoopDepth(lines, j + 1)

\* the Loop at index l (0-based) is the k-th Loop taken
LoopNumber(lines, l) == Cardinality({m \in 0..l : lines[m + 1].k = "Loop"})

\* Loop[FOREVER], DisplayText(SHELL)=".", EndLoop
DotLoop == [main |-> <<LoopC, DisplayC, EndLoopC>>, functions |-> <<>>]

\* C22: when compile_long_to_vm returns, every EndLoop has emitted GOTO
\* LOOP_k for the innermost Loop[FOREVER] still open, and LOOP_k resolves to
\* the index of the first op of that loop's body; for Loop[FOREVER],
\* DisplayText(SHELL)=".", EndLoop the ops are PRINT_STR, NL, GOTO LOOP_1
\* with LOOP_1 at index 0.
C22_EndLoopJumpsToLoopStart ==
    c_status \in {"returned", "built"} =>
        LET F == FlatLines(c_source)
        IN  /\ Len(c_marks) = Len(F)
            /\ \A j \in 0..(Len(F) - 1) :
                F[j + 1].k = "EndLoop" =>
                    /\ HasLoopOf(F, j)
                    /\ IsGoto(c_marks[j + 1], Lbl("LOOP_", "", LoopNumber(F, LoopOf(F, j))))
                    /\ ResolvesTo(Lbl("LOOP_", "", LoopNumber(F, LoopOf(F, j))),
                                  c_marks[LoopOf(F, j) + 1])
            /\ c_source = DotLoop =>
                /\ Len(ops) = 3
                /\ ops[1][1] = "PRINT_STR" /\ ops[2][1] = "NL"
                /\ IsGoto(2, Lbl("LOOP_", "", 1))
                /\ ResolvesTo(Lbl("LOOP_", "", 1), 0)

\* a loop nested in a loop, with ops in both bodies, has been compiled
C22_Witness ==
    /\ c_status = "returned"
    /\ \E j \in 0..(Len(c_source.main) - 1) :
        /\ c_source.main[j + 1].k = "EndLoop"
        /\ LoopDepth(c_source.main, j + 1) = 1
    /\ Lbl("LOOP_", "", 2) \in DOMAIN label_positions
    /\ label_positions[Lbl("LOOP_", "", 2)] > label_positions[Lbl("LOOP_", "", 1)]

\* the CallFunction at flat index j has taken the ops from its offset on
CallOpsAt(j) == c_marks[j + 1]

\* C23 as stated: every CallFunction[F], with or without a capture, has
\* emitted SET_STR __RETVAL <empty string> immediately before CALL FUNC_F,
\* and SET_VAR V __RETVAL immediately after the CALL exactly when a capture
\* -> V is present.
C23_CallClearsRetval ==
    c_status \in {"returned", "built"} =>
        LET F == FlatLines(c_source)
        IN  \A j \in 0..(Len(F) - 1) :
                F[j + 1].k = "CallFunction" =>
                    LET i == CallOpsAt(j)
                        n == IF j + 1 < Len(F) THEN c_marks[j + 2] ELSE Len(ops)
                    IN  /\ i + 2 <= Len(ops)
                        /\ ops[i + 1][1] = "SET_STR" /\ ops[i + 1][2] = "__RETVAL"
                        /\ "" \in DOMAIN strings /\ ops[i + 1][3] = strings[""]
                        /\ ops[i + 2][1] = "CALL" /\ ops[i + 2][2] = Lbl("FUNC_", F[j + 1].a, 0)
                        /\ IF F[j + 1].b # ""
                           THEN /\ i + 3 <= Len(ops)
                                /\ ops[i + 3][1] = "SET_VAR"
                                /\ ops[i + 3][2] = F[j + 1].b /\ ops[i + 3][3] = "__RETVAL"
                           ELSE ~(i + 3 <= Len(ops) /\ ops[i + 3][1] = "SET_VAR"
                                  /\ ops[i + 3][3] = "__RETVAL")

\* C23 amended: a CallFunction[F] -> V has emitted SET_STR __RETVAL <empty
\* string>, CALL FUNC_F, SET_VAR V __RETVAL in a row; a CallFunction[F]
\* without a capture has emitted CALL FUNC_F alone: no SET_STR before it
\* and no SET_VAR after it.
C23_CallClearsRetvalOnCapture ==
    c_status \in {"returned", "built"} =>
        LET F == FlatLines(c_source)
        IN  /\ Len(c_marks) = Len(F)
            /\ \A j \in 0..(Len(F) - 1) :
                F[j + 1].k = "CallFunction" =>
                    LET i == CallOpsAt(j)
                        n == IF j + 1 < Len(F) THEN c_marks[j + 2] ELSE Len(ops)
                    IN  IF F[j + 1].b # ""
                        THEN /\ i + 3 <= Len(ops)
                             /\ ops[i + 1][1] = "SET_STR" /\ ops[i + 1][2] = "__RETVAL"
                             /\ "" \in DOMAIN strings /\ ops[i + 1][3] = strings[""]
                             /\ ops[i + 2][1] = "CALL"
                             /\ ops[i + 2][2] = Lbl("FUNC_", F[j + 1].a, 0)
                             /\ ops[i + 3][1] = "SET_VAR"
                             /\ ops[i + 3][2] = F[j + 1].b /\ ops[i + 3][3] = "__RETVAL"
                        ELSE /\ i + 1 <= Len(ops)
                             /\ ops[i + 1][1] = "CALL"
                             /\ ops[i + 1][2] = Lbl("FUNC_", F[j + 1].a, 0)
                             /\ n \in {i + 1, i + 2}
                             /\ n = i + 2 => ops[i + 2][1] = "RET"

\* a source with a capturing call and one with a plain call followed by
\* another statement has been compiled
C23_Witness ==
    /\ c_status = "returned"
    /\ \E j \in 1..Len(FlatLines(c_source)) :
        FlatLines(c_source)[j].k = "CallFunction" /\ FlatLines(c_source)[j].b # ""
    /\ \E j \in 1..(Len(c_source.main) - 1) :
        c_source.main[j].k = "CallFunction" /\ c_source.main[j].b = ""

\* the line uses one of the constructs the compiler does not support, as the
\* statement itself or as the right-hand side of a Set
UsesUnsupported(line) ==
    line.k \in UnsupportedKinds \/ (line.k = "Set" /\ line.rk \in UnsupportedKinds)

\* C24: no statement that uses ReadFile, Every[MS], FS[...], Block[...],
\* WriteFile, AppendFile, TickTimer, Time[] or Random[...], alone or as the
\* right-hand side of a Set, is ever taken by compile_lines: the compilation
\* raises at that statement, before any op is emitted for it.
C24_UnsupportedConstructFails ==
    LET F == FlatLines(c_source)
    IN  \A j \in 1..Len(c_marks) : j <= Len(F) => ~UsesUnsupported(F[j])

\* the operands of an op are within the width the bytecode gives them
OperandsInRange(op) ==
    CASE op[1] = "FILL_LINES" -> op[2] \in 0..ByteMax
      [] op[1] \in {"DRAW_BOX", "SET_CURSOR_II"} -> op[2] \in 0..ByteMax /\ op[3] \in 0..ByteMax
      [] op[1] = "SET_COLOR" -> op[3] \in 0..ByteMax
      [] op[1] = "MATH_VI" -> op[5] \in 0..WordMax
      [] op[1] = "IF_NUM_VI" -> op[4] \in 0..WordMax
      [] OTHER -> TRUE

\* C25: when compile_long_to_vm returns, every variable slot index, every
\* FILL_LINES count, DRAW_BOX width and height, SET_CURSOR_II row and column
\* and colour index is in 0..255 and every MATH_VI and IF_NUM_VI immediate
\* is in 0..65535: a source operand out of range has made the compilation
\* fail.
C25_OperandsFitTheirWidth ==
    c_status \in {"returned", "built"} =>
        /\ \A i \in 1..Len(ops) : OperandsInRange(ops[i])
        /\ \A name \in DOMAIN variables_map : variables_map[name] \in 0..ByteMax

\* ------------------------------------------------------------------------
\* Properties of the boot image
\* ------------------------------------------------------------------------
BootSteps == <<"compile", "replace", "stage2", "stage1", "write">>

\* C26: the output file changes only in a step taken after the bytecode
\* compilation, the marker replacement, the stage-2 assembly and the
\* stage-1 assembly have succeeded, in that order; once the compilation
\* has raised, a marker was not found, or nasm was missing or returned
\* non-zero, the process has exited with status 1 and the output file is
\* what it was at the call.
C26_ImageWrittenAfterAllSucceeded ==
    [][/\ boot'.out # boot.out =>
            /\ boot.log = SubSeq(BootSteps, 1, 4)
            /\ boot.failed = ""
            /\ c_status = "built"
       /\ boot'.failed # "" =>
            /\ boot'.exit = 1
            /\ boot'.out = boot'.before
       /\ (boot.pc = "compile" /\ c_status = "error") => boot'.failed = "compile error"
       /\ boot'.exit = 0 => boot'.log = BootSteps]_vars

\* the stage-1 assembly has failed after the stage-2 assembly succeeded and
\* the file at the output path is the one of before the call
C26_Witness ==
    /\ boot.exit = 1
    /\ boot.failed = "nasm failed"
    /\ boot.log = SubSeq(BootSteps, 1, 3)
    /\ boot.before = OldFile
    /\ boot.out = OldFile

\* C27: the image written is 1,474,560 bytes long, whatever the lengths of
\* the stage-1 and stage-2 binaries.
C27_ImageIsFloppySized ==
    boot.exit = 0 => ByteLen(boot.out.bytes) = FloppySize

\* C28: the sector count is the length of the stage-2 binary divided by
\* 512, rounded up, and 1 for an empty binary; stage-1 is assembled from a
\* text whose STAGE2_SECTORS equate is that count; in the image, the
\* stage-2 binary starts right after the stage-1 binary, fits the stage-2
\* sectors, and is followed by zero bytes only up to the end of the image,
\* which is not before the end of those sectors.
C28_Stage2SectorsAndLayout ==
    /\ "stage2" \in {boot.log[i] : i \in 1..Len(boot.log)} =>
          /\ boot.stage2_sectors >= 1
          /\ boot.stage2_sectors * SectorSize >= boot.stage2_size
          /\ boot.stage2_sectors > 1 => (boot.stage2_sectors - 1) * SectorSize < boot.stage2_size
    /\ "stage1" \in {boot.log[i] : i \in 1..Len(boot.log)} =>
          boot.stage1_equ = boot.stage2_sectors
    /\ boot.exit = 0 =>
          LET bytes == boot.out.bytes
          IN  /\ Len(bytes) >= 2
              /\ bytes[1] = Run("stage1", boot.stage1_size)
              /\ bytes[2] = Run("stage2", boot.stage2_size)
              /\ \A i \in 3..Len(bytes) : bytes[i].kind = "zero"
              /\ boot.stage2_size <= boot.stage2_sectors * SectorSize
              /\ ByteLen(bytes) >= boot.stage1_size + boot.stage2_sectors * SectorSize

\* an image has been written whose stage-2 binary ends inside its last
\* sector, more than one sector long
C28_Witness ==
    /\ boot.exit = 0
    /\ boot.stage2_size = SectorSize + 1
    /\ boot.stage2_sectors = 2
    /\ boot.out.bytes = <<Run("stage1", SectorSize), Run("stage2", SectorSize + 1),
                          Run("zero", SectorSize - 1), Run("zero", FloppySize - 3 * SectorSize)>>

\* ------------------------------------------------------------------------
\* fs_save step by step, and the process killed between two steps
\* ------------------------------------------------------------------------
\* save.phase is the position in the statement: idle between statements,
\* mutated when the handler is about to call fs_save, opened once
\* open(path, "w") has returned, writing while json.dump writes.  save.text
\* tells what build/lush_fs.json holds: the complete text of the document
\* disk, nothing, or the beginning of the text of save.next.  save.prev is
\* the document of the previous flush (save.prev_exists: there was one),
\* save.next the store the statement saves.

\* what the handlers that change the store do before they call fs_save: the
\* new store and the new variables of Block[Alloc], Block[Write], FS[Create]
\* and FS[Write]
StoreChanges(fs) ==
    {[fs |-> fs_alloc_block(fs).fs,
      variables |-> Put(variables, "LASTBLOCK", fs_alloc_block(fs).id)]}
    \cup {[fs |-> fs_write_block(fs, id, c).fs, variables |-> Put(variables, "LASTBLOCK", id)] :
            id \in {i \in IdTokens : i \in DOMAIN fs.blocks}, c \in Contents}
    \cup {[fs |-> fs_create_file(fs, fs_normalize_path(t), m),
           variables |-> Put(variables, "LASTCREATEPATH", fs_normalize_path(t))] :
            t \in {x \in PathTokens : fs_normalize_path(x) \notin DOMAIN fs.files}, m \in Metas}
    \cup {[fs |-> fs_write_file(fs, fs_normalize_path(t), c),
           variables |-> Put(Put(variables, "LASTWRITEPATH", fs_normalize_path(t)),
                             "LASTWRITESIZE", Str(Len(c)))] :
            t \in PathTokens, c \in Contents}

Running == ~save.crashed

save_frame == <<aux_vars, variables, run_vars, comp_vars, load_vars, boot_vars, last_op, alloc_log, write_log>>

\* a statement that changes the store, up to its call of fs_save
StoreStatement ==
    /\ Running /\ save.phase = "idle"
    /\ nops < MaxOps
    /\ \E change \in StoreChanges(fs_load) :
          /\ fs_loaded' = TRUE
          /\ fs_state' = change.fs
          /\ variables' = change.variables
          /\ save' = [save EXCEPT !.phase = "mutated", !.next = change.fs,
                                  !.prev = disk, !.prev_exists = disk_exists]
    /\ UNCHANGED <<disk_exists, disk, nops>>
    /\ UNCHANGED <<run_vars, comp_vars, load_vars, boot_vars, aux_vars, last_op, alloc_log,
                   write_log>>

\* open(fs_db_path(), "w"): the file is created or cut to no byte
fs_save_open ==
    /\ Running /\ save.phase = "mutated"
    /\ disk_exists' = TRUE
    /\ save' = [save EXCEPT !.phase = "opened", !.text = "empty"]
    /\ UNCHANGED <<fs_loaded, fs_state, disk, nops, save_frame>>

\* json.dump has written a part of the text
fs_save_dump ==
    /\ Running /\ save.phase = "opened"
    /\ save' = [save EXCEPT !.phase = "writing", !.text = "truncated"]
    /\ UNCHANGED <<fs_loaded, fs_state, disk_exists, disk, nops, save_frame>>

\* json.dump has written the whole text and the with block has closed the
\* file: the statement is over
fs_save_close ==
    /\ Running /\ save.phase \in {"opened", "writing"}
    /\ disk' = save.next
    /\ save' = [save EXCEPT !.phase = "idle", !.text = "complete"]
    /\ nops' = nops + 1
    /\ UNCHANGED <<fs_loaded, fs_state, disk_exists, save_frame>>

\* the process is killed during the statement
Crash ==
    /\ Running /\ save.phase # "idle"
    /\ save' = [save EXCEPT !.crashed = TRUE]
    /\ UNCHANGED <<store_vars, save_frame>>

NextFSCrash ==
    \/ StoreStatement
    \/ fs_save_open
    \/ fs_save_dump
    \/ fs_save_close
    \/ Crash

SpecFSCrash == InitFS /\ [][NextFSCrash]_vars

\* ------------------------------------------------------------------------
\* Properties of the persisted store
\* ------------------------------------------------------------------------
\* C29: once the process has been killed during a statement that changes
\* the store, build/lush_fs.json, if it exists, holds a complete document,
\* which is the one of the previous flush or the store the statement was
\* saving; there is a file if there was one before the statement.
C29_CrashLeavesCompleteDocument ==
    save.crashed =>
        /\ save.prev_exists => disk_exists
        /\ disk_exists =>
              /\ save.text = "complete"
              /\ (save.prev_exists /\ disk = save.prev) \/ disk = save.next

\* the store a new process would load from build/lush_fs.json
PersistedState == IF disk_exists THEN disk ELSE fs_default_state

\* C30: the store is not loaded before the first FS[...] or Block[...]
\* statement and is loaded from that statement on (nops counts these
\* statements: the store is loaded exactly when one has been executed);
\* after every such statement the persisted document is the in-memory
\* store, and a store that differs from the default one has been written.
C30_LoadedOnceAndSavedAfterEveryStatement ==
    /\ fs_loaded = (nops > 0)
    /\ nops > 0 =>
          /\ PersistedState = fs_state
          /\ fs_state # fs_default_state => (disk_exists /\ disk = fs_state)

\* a statement that fails and saves nothing has followed two that changed
\* the store, and the document on disk is the store
C30_Witness ==
    /\ nops = 3
    /\ ~last_op.ok
    /\ alloc_log # <<>>
    /\ DOMAIN fs_state.files # {}
    /\ disk_exists /\ disk = fs_state

\* ------------------------------------------------------------------------
\* The store under every short path token
\* ------------------------------------------------------------------------
\* longest path token
MaxPath == 3

PathChars == {"/", "a"}

\* every text of at most MaxPath characters among "/" and "a", and texts
\* with spaces before, inside and after
AllPathTokens ==
    UNION {[1..n -> PathChars] : n \in 0..MaxPath}
        \cup {<<" ">>, <<" ", "a", " ">>, <<" ", "/", "/", "a">>, <<"/", " ", "/", " ">>}

\* most FS statements of a run
MaxPathOps == 2

NextFSPaths ==
    /\ nops < MaxPathOps
    /\ \/ \E t \in AllPathTokens : FSCreate(t, EmptyMap)
       \/ \E t \in AllPathTokens : FSWrite(t, <<>>)
       \/ \E t \in AllPathTokens, r \in Roles : FSSetRole(t, r)
       \/ \E t \in AllPathTokens : FSTran(t)

SpecFSPaths == InitFS /\ [][NextFSPaths]_vars

\* begins with "/" and contains no "//"
IsNormalized(path) == Len(path) > 0 /\ path[1] = "/" /\ ~HasDoubleSlash(path)

\* C31: every key of files begins with "/" and contains no "//", whatever
\* token the FS statements were given, and fs_normalize_path returns it
\* unchanged; fs_normalize_path of any token is a path that
\* fs_normalize_path returns unchanged.
C31_FileKeysAreNormalized ==
    /\ \A path \in DOMAIN fs_state.files :
          IsNormalized(path) /\ fs_normalize_path(path) = path
    /\ \A t \in AllPathTokens :
          /\ IsNormalized(fs_normalize_path(t))
          /\ fs_normalize_path(fs_normalize_path(t)) = fs_normalize_path(t)

\* files were created from tokens such as "///" and "a//", the last by an
\* FS[Write]
C31_Witness ==
    /\ DOMAIN fs_state.files = {<<"/">>, <<"/", "a", "/">>}
    /\ last_op.op = "FSWrite"
    /\ last_op.path = <<"/", "a", "/">>
    /\ nops = 2

\* ------------------------------------------------------------------------
\* FS[SetRole] and FS[Tran]
\* ------------------------------------------------------------------------
\* the step is the statement op, which found its file or did not
RoleStatement(op, ok) == last_op'.op = op /\ last_op'.ok = ok /\ nops' = nops + 1

\* the step leaves the store in memory and on disk, and every variable, as
\* they were
RoleStatementFailed ==
    /\ fs_state' = fs_load
    /\ NotSaved
    /\ UNCHANGED variables

\* C32 as stated: FS[SetRole] on an existing file changes the role field of
\* that file and nothing else of the store.
C32_SetRoleChangesOnlyRole ==
    [][RoleStatement("FSSetRole", TRUE) =>
          fs_state' = [fs_load EXCEPT !.files[last_op'.path].role = variables'["LASTROLE"]]]_vars

\* C32 amended: FS[SetRole][p]=r on an existing file changes the role and the
\* modified time of that file and nothing else of the store; FS[Tran][p]
\* sets role "Tran", run "bg" and the modified time in the one step, in
\* memory and on disk alike; on a missing file both report the error and
\* leave the store, the disk and every variable unchanged.
C32_RoleStatementsFrame ==
    [][/\ RoleStatement("FSSetRole", TRUE) =>
            /\ fs_state' = [fs_load EXCEPT !.files[last_op'.path].role = variables'["LASTROLE"],
                                           !.files[last_op'.path].modified = Now]
            /\ disk' = fs_state'
       /\ RoleStatement("FSTran", TRUE) =>
            /\ fs_state' = [fs_load EXCEPT !.files[last_op'.path].role = <<"T", "r", "a", "n">>,
                                           !.files[last_op'.path].run = <<"b", "g">>,
                                           !.files[last_op'.path].modified = Now]
            /\ disk' = fs_state'
       /\ RoleStatement("FSSetRole", FALSE) => RoleStatementFailed
       /\ RoleStatement("FSTran", FALSE) => RoleStatementFailed]_vars

\* FS[Tran] has just changed one of two files, the other one holding a block
C32_Witness ==
    /\ last_op.op = "FSTran"
    /\ last_op.ok
    /\ Cardinality(DOMAIN fs_state.files) = 2
    /\ fs_state.files[last_op.path].run = <<"b", "g">>
    /\ \E p \in DOMAIN fs_state.files :
          p # last_op.path /\ Len(fs_state.files[p].blocks) > 0

\* ------------------------------------------------------------------------
\* substitute_variables and handle_if as functions of text
\* ------------------------------------------------------------------------
\* s.startswith(pat, i - 1): pat stands in s at position i
StandsAt(s, pat, i) ==
    /\ i >= 1
    /\ i + Len(pat) - 1 <= Len(s)
    /\ \A k \in 1..Len(pat) : s[i + k - 1] = pat[k]

\* s.find(pat, i - 1) + 1: the first position from i on where pat stands, 0 when none
Find(s, pat, i) ==
    IF \E k \in i..Len(s) : StandsAt(s, pat, k)
    THEN CHOOSE k \in i..Len(s) : StandsAt(s, pat, k) /\ \A j \in i..(k - 1) : ~StandsAt(s, pat, j)
    ELSE 0

\* the grave accent of the source cannot stand in a string of this language:
\* the texts of the model write it as "^"
Grave == "^"

PlaceholderOpen == <<"<", Grave>>
PlaceholderClose == <<Grave, ">">>

\* re.findall over the placeholder pattern, from position i on: the names between
\* the markers, left to right, matches not overlapping
RECURSIVE FindAllFrom(_, _)
FindAllFrom(text, i) ==
    LET o == Find(text, PlaceholderOpen, i)
        c == IF o = 0 THEN 0 ELSE Find(text, PlaceholderClose, o + 2)
    IN  IF o = 0 \/ c = 0 THEN <<>>
        ELSE <<SubSeq(text, o + 2, c - 1)>> \o FindAllFrom(text, c + 2)

\* s.replace(pat, value) from position i on: every occurrence of pat,
\* left to right, occurrences not overlapping
RECURSIVE ReplaceFrom(_, _, _, _)
ReplaceFrom(s, pat, value, i) ==
    IF i > Len(s) THEN <<>>
    ELSE IF StandsAt(s, pat, i) THEN value \o ReplaceFrom(s, pat, value, i + Len(pat))
    ELSE <<s[i]>> \o ReplaceFrom(s, pat, value, i + 1)

Undefined(var) == <<"<", "U", "N", "D", "E", "F", "I", "N", "E", "D", ":">> \o var \o <<">">>

\* variables.get(var, f"<UNDEFINED:{var}>") for a name given as text
ValueOf(var) == IF var \in DOMAIN variables THEN variables[var] ELSE Undefined(var)

\* the loop of substitute_variables over the matches found at the start
RECURSIVE SubstituteEach(_, _)
SubstituteEach(text, matches) ==
    IF Len(matches) = 0 THEN text
    ELSE SubstituteEach(
            ReplaceFrom(text, PlaceholderOpen \o Head(matches) \o PlaceholderClose,
                        ValueOf(Head(matches)), 1),
            Tail(matches))

substitute_variables(text) == SubstituteEach(text, FindAllFrom(text, 1))

\* the leading decimal digits of s
RECURSIVE LeadingDigits(_)
LeadingDigits(s) ==
    IF Len(s) = 0 \/ ~IsDigit(s[1]) THEN <<>> ELSE <<s[1]>> \o LeadingDigits(Tail(s))

parse_uint_like_vm(value) == ToInt(LeadingDigits(Strip(value)))

IsQuoted(s) ==
    /\ Len(s) > 0
    /\ \/ s[1] = "\"" /\ s[Len(s)] = "\""
       \/ s[1] = "'" /\ s[Len(s)] = "'"

\* parse_if_parts on the three groups IF_OP_RE finds in the line
parse_if_parts(left, op, right) ==
    LET right_raw == Strip(right)
    IN  IF IsQuoted(right_raw)
        THEN [left |-> Strip(left), op |-> op,
              right |-> substitute_variables(Slice(right_raw, 1, Len(right_raw) - 1)),
              right_is_var |-> FALSE]
        ELSE [left |-> Strip(left), op |-> op, right |-> right_raw,
              right_is_var |-> right_raw \in DOMAIN variables]

\* handle_if on the three groups IF_OP_RE finds in the line
handle_if_groups(left, op, right) ==
    LET parsed == parse_if_parts(left, op, right)
        left_val == Strip(IF parsed.left \in DOMAIN variables THEN variables[parsed.left] ELSE <<>>)
        right_val == IF parsed.right_is_var THEN Strip(variables[parsed.right]) ELSE parsed.right
    IN  CASE op = "=" -> left_val = right_val
          [] op = "<" -> parse_uint_like_vm(left_val) < parse_uint_like_vm(right_val)
          [] op = "<=" -> parse_uint_like_vm(left_val) <= parse_uint_like_vm(right_val)
          [] op = ">" -> parse_uint_like_vm(left_val) > parse_uint_like_vm(right_val)
          [] op = ">=" -> parse_uint_like_vm(left_val) >= parse_uint_like_vm(right_val)

\* names and values of variables, as texts
NameV == <<"V">>
NameW == <<"W">>
PlaceholderV == PlaceholderOpen \o NameV \o PlaceholderClose
PlaceholderW == PlaceholderOpen \o NameW \o PlaceholderClose

TextValues ==
    {<<>>, <<"7">>, <<" ", "7">>, <<"1", "2">>, <<"a">>, <<"a", " ">>, PlaceholderV}

\* the variables of a run: none, V alone, V and W.  In this section the
\* names are texts, as they are cut out of the text of a line.
TextStores ==
    {EmptyMap}
        \cup {[n \in {NameV} |-> v] : v \in TextValues}
        \cup {[n \in {NameV, NameW} |-> IF n = NameV THEN v ELSE w] : v, w \in TextValues}

IfLefts == {NameV, <<" ", "V">>, <<"U">>}

IfOperators == {"=", "<", "<=", ">", ">="}

IfRights ==
    {<<"\"", "7", "\"">>, <<"\"", "a", "\"">>, <<"\"", " ", "7", "\"">>, <<"'", "a", "'">>,
     <<"\"", "\"">>, <<"\"">> \o PlaceholderV \o <<"\"">>,
     NameW, <<"b">>, <<"7", " ">>, <<"1", "2">>}

SubstituteTexts ==
    {<<>>, <<"a">>, <<"V">>, PlaceholderV, PlaceholderW, PlaceholderV \o PlaceholderW,
     PlaceholderW \o <<" ">> \o PlaceholderV, PlaceholderV \o <<"a">> \o PlaceholderV,
     PlaceholderOpen \o <<"U">> \o PlaceholderClose, PlaceholderOpen \o NameV,
     NameV \o PlaceholderClose, PlaceholderOpen \o PlaceholderV}

InitText ==
    /\ StoreInit
    /\ BootIdle
    /\ SaveIdle
    /\ AuxIdle
    /\ LoadIdle
    /\ variables \in TextStores
    /\ RunIdle
    /\ CompileIdle

text_frame == <<store_vars, variables, run_vars, comp_vars, load_vars, boot_vars, save_vars, cinterp>>

\* If[left] op right is evaluated
HandleIf(left, op, right) ==
    /\ applied = NoCall
    /\ applied' = [fn |-> "handle_if", left |-> left, op |-> op, right |-> right,
                   result |-> handle_if_groups(left, op, right)]
    /\ UNCHANGED text_frame

\* the placeholders of a text are substituted
SubstituteVariables(text) ==
    /\ applied = NoCall
    /\ applied' = [fn |-> "substitute_variables", text |-> text,
                   result |-> substitute_variables(text)]
    /\ UNCHANGED text_frame

NextText ==
    \/ \E left \in IfLefts, op \in IfOperators, right \in IfRights : HandleIf(left, op, right)
    \/ \E text \in SubstituteTexts : SubstituteVariables(text)

SpecText == InitText /\ [][NextText]_vars

\* variables.get(name, "")
ValueOrEmpty(name) == IF name \in DOMAIN variables THEN variables[name] ELSE <<>>

\* the right-hand side of an If as the specification words it: the quoted
\* literal, the value of the variable an unquoted text names, or that text
StatedRight(right) ==
    LET right_raw == Strip(right)
    IN  IF IsQuoted(right_raw) THEN substitute_variables(Slice(right_raw, 1, Len(right_raw) - 1))
        ELSE IF right_raw \in DOMAIN variables THEN variables[right_raw]
        ELSE right_raw

\* the comparison of an If as the specification words it: the two values
\* as they are, or their leading digits read as a number
StatedIf(left, op, right) ==
    LET l == ValueOrEmpty(Strip(left))
        r == StatedRight(right)
        ln == ToInt(LeadingDigits(l))
        rn == ToInt(LeadingDigits(r))
    IN  CASE op = "=" -> l = r
          [] op = "<" -> ln < rn
          [] op = "<=" -> ln <= rn
          [] op = ">" -> ln > rn
          [] op = ">=" -> ln >= rn

\* C33: If[V] = RHS is true exactly when the value of V (the empty text
\* when V is unset) and the value of RHS are the same text, nothing trimmed;
\* the ordering operators compare the leading decimal digits of the two
\* values, 0 when there are none.
C33_IfComparesRawValues ==
    applied.fn = "handle_if" =>
        applied.result = StatedIf(applied.left, applied.op, applied.right)

\* one pass over the text from position i on: each placeholder gives way to
\* the value of its name, and what was put in is not looked at again
RECURSIVE SubstitutePass(_, _)
SubstitutePass(text, i) ==
    LET o == Find(text, PlaceholderOpen, i)
        c == IF o = 0 THEN 0 ELSE Find(text, PlaceholderClose, o + 2)
    IN  IF o = 0 \/ c = 0 THEN SubSeq(text, i, Len(text))
        ELSE SubSeq(text, i, o - 1) \o ValueOf(SubSeq(text, o + 2, c - 1))
                 \o SubstitutePass(text, c + 2)

\* C35: substitute_variables puts the value of NAME, or <UNDEFINED:NAME>
\* when NAME is not set, in the place of each placeholder exactly once, the
\* text put in is not substituted again, and a text without the opening
\* marker is returned as it is.
C35_EachPlaceholderSubstitutedOnce ==
    applied.fn = "substitute_variables" =>
        /\ applied.result = SubstitutePass(applied.text, 1)
        /\ Find(applied.text, PlaceholderOpen, 1) = 0 => applied.result = applied.text

\* ------------------------------------------------------------------------
\* The block statements
\* ------------------------------------------------------------------------
\* most statements of a run of block statements
MaxBlockOps == 3

NextBlocks ==
    /\ nops < MaxBlockOps
    /\ \/ BlockAlloc
       \/ \E id \in IdTokens : BlockRead(id)
       \/ \E id \in IdTokens : SetBlockRead("Y", id)
       \/ \E id \in IdTokens, c \in Contents : BlockWrite(id, c)
       \/ \E c \in Contents : FSWrite(<<"a">>, c)

SpecBlocks == InitFS /\ [][NextBlocks]_vars

\* the step is a read of the block that the statement before it wrote
ReadsWhatWasWritten ==
    /\ last_op.op = "BlockWrite"
    /\ last_op.ok
    /\ last_op.id \in Range(alloc_log)
    /\ last_op'.op \in {"BlockRead", "SetBlockRead"}
    /\ last_op'.id = last_op.id
    /\ nops' = nops + 1

\* C34: a read of an allocated block right after a write to it gives the
\* first block_size (4096) characters of what was written, in LASTBLOCKDATA
\* or in the variable of the Set; no block holds more than block_size
\* characters; LASTBLOCK is the id after Block[Alloc], after a Block[Write]
\* that found its block and after either read; the first statement of a run,
\* when it is Block[Alloc], returns "1".
C34_BlockWriteReadRoundTrip ==
    /\ [][ReadsWhatWasWritten =>
            /\ last_op'.content = Slice(last_op.content, 0, DefaultBlockSize)
            /\ last_op'.op = "BlockRead" =>
                  variables'["LASTBLOCKDATA"] = Slice(last_op.content, 0, DefaultBlockSize)
            /\ last_op'.op = "SetBlockRead" =>
                  variables'["Y"] = Slice(last_op.content, 0, DefaultBlockSize)]_vars
    /\ [](\A id \in DOMAIN fs_state.blocks : Len(fs_state.blocks[id]) <= fs_state.block_size)
    /\ []((last_op.op \in {"BlockAlloc", "BlockRead", "SetBlockRead"}
               \/ (last_op.op = "BlockWrite" /\ last_op.ok))
             => variables["LASTBLOCK"] = last_op.id)
    /\ [](last_op.op = "BlockAlloc" /\ nops = 1 => last_op.id = Str(FirstBlockId))

\* Block[Alloc] gave "1", one character more than a block was written to it
\* and the read that followed returned a whole block
C34_Witness ==
    /\ nops = 3
    /\ alloc_log = <<Str(FirstBlockId)>>
    /\ last_op.op = "SetBlockRead"
    /\ last_op.id = Str(FirstBlockId)
    /\ variables["Y"] = Text(DefaultBlockSize)
    /\ variables["LASTBLOCK"] = Str(FirstBlockId)

\* the step is a Block[Write] or a read of an id that is no key of blocks
MissingBlock(op) ==
    /\ last_op'.op = op
    /\ nops' = nops + 1
    /\ last_op'.id \notin DOMAIN fs_load.blocks

\* what a block statement does with an id that is no key of blocks
MissingBlockStep ==
    /\ MissingBlock("BlockWrite") =>
          /\ ~last_op'.ok
          /\ fs_state' = fs_load
          /\ NotSaved
          /\ UNCHANGED variables
    /\ MissingBlock("BlockRead") =>
          /\ last_op'.content = <<>>
          /\ variables'["LASTBLOCKDATA"] = <<>>
          /\ fs_state' = fs_load
    /\ MissingBlock("SetBlockRead") =>
          /\ last_op'.content = <<>>
          /\ variables'["Y"] = <<>>
          /\ fs_state' = fs_load

\* C39: Block[Write] with an id that is no key of blocks reports the error
\* and leaves the store (blocks, next_block_id, files), the disk and
\* LASTBLOCK as they were; Block[Read] and the Set form with such an id give
\* the empty text and leave the store as it was; the run goes on with the
\* next statement.
C39_MissingBlockIdChangesNothing ==
    /\ [][MissingBlockStep]_vars
    /\ []((last_op.op \in {"BlockWrite", "BlockRead", "SetBlockRead"} /\ ~last_op.ok
               /\ nops < MaxBlockOps)
             => ENABLED NextBlocks)

\* a Block[Write] to an id that is no key of blocks came after a Block[Alloc]
\* that had set LASTBLOCK and after an FS[Write] that had stored a file
C39_Witness ==
    /\ nops = 3
    /\ alloc_log = <<Str(FirstBlockId)>>
    /\ "LASTBLOCK" \in DOMAIN variables
    /\ last_op.op = "BlockWrite"
    /\ ~last_op.ok
    /\ DOMAIN fs_state.files # {}

\* ------------------------------------------------------------------------
\* FS[Create]
\* ------------------------------------------------------------------------
\* the value given for key, or the default
Given(meta, key, default) == IF key \in DOMAIN meta THEN meta[key] ELSE default

\* what FS[Create] does: on a path of files nothing, on a new path one new
\* entry and LASTCREATEPATH
CreateStep ==
    (last_op'.op = "FSCreate" /\ nops' = nops + 1) =>
        LET path == last_op'.path
            meta == last_op'.meta
        IN  IF path \in DOMAIN fs_load.files
            THEN /\ ~last_op'.ok
                 /\ fs_state' = fs_load
                 /\ NotSaved
                 /\ UNCHANGED variables
            ELSE /\ last_op'.ok
                 /\ fs_state' = [fs_load EXCEPT !.files = Put(fs_load.files, path,
                        [blocks |-> <<>>,
                         size |-> 0,
                         role |-> Given(meta, "role", <<"d", "o", "c">>),
                         ui |-> Given(meta, "ui", <<"n", "o", "n", "e">>),
                         run |-> Given(meta, "run", <<"f", "g">>),
                         backup |-> Given(meta, "backup",
                                          <<"v", "e", "r", "s", "i", "o", "n", "e", "d">>),
                         versions |-> <<>>,
                         created |-> Now,
                         modified |-> Now])]
                 /\ disk' = fs_state'
                 /\ variables' = Put(variables, "LASTCREATEPATH", path)

\* C36: FS[Create] on an existing path reports the error and leaves the
\* store, the disk and every variable (LASTCREATEPATH among them) as they
\* were, and the run goes on; on a new path it adds one entry with no
\* blocks, size 0, no versions and the metadata role=doc, ui=none, run=fg,
\* backup=versioned, each replaced by the value given for its key.
C36_CreateKeepsExistingFile ==
    /\ [][CreateStep]_vars
    /\ []((last_op.op = "FSCreate" /\ ~last_op.ok /\ nops < MaxOps) => ENABLED NextFS)

\* FS[Create] with a role was refused on a path whose file had been written
\* twice
C36_Witness ==
    /\ last_op.op = "FSCreate"
    /\ ~last_op.ok
    /\ "role" \in DOMAIN last_op.meta
    /\ Len(fs_state.files[last_op.path].versions) = 1
    /\ Len(fs_state.files[last_op.path].blocks) = 2

\* ------------------------------------------------------------------------
\* Goto inside a function body
\* ------------------------------------------------------------------------
\* C38: after a Goto[L] executed in a function body, L a recorded label, the
\* interpreter stands in the main stream at the statement that follows
\* Label[L]: the index labels[L] is not used on the lines of the body.
C38_GotoInBodyLeavesForMainStream ==
    (/\ last.ev = "exec"
     /\ last.k = "Goto"
     /\ last.pos.s # "main"
     /\ source.functions[last.pos.s][last.pos.i + 1].a \in DOMAIN labels)
        => /\ program_lines = source.main
           /\ current_line = labels[source.functions[last.pos.s][last.pos.i + 1].a] + 1

\* ------------------------------------------------------------------------
\* The interpreter of longc.py: run_program, execute_line, handle_call
\* ------------------------------------------------------------------------
\* longest main stream of the programs run by this interpreter
MaxCMain == 3

CMainTokens == {SetL, IfYesL, EndIfL, DisplayL, CallL("F")}

\* function bodies: an If that is false until X is set, an If with an Else
\* that is true until X is set, no If
CBodies ==
    {<<IfYesL, DisplayL, EndIfL, DisplayL>>,
     <<IfBlankL, DisplayL, ElseL, DisplayL, EndIfL>>,
     <<DisplayL>>}

CPrograms ==
    {Program(main, OneFunction("F", body)) :
        main \in UNION {[1..n -> CMainTokens] : n \in 1..MaxCMain}, body \in CBodies}

\* after load_program, at the start of run_program
InitCInterp ==
    /\ StoreInit
    /\ BootIdle
    /\ SaveIdle
    /\ LoadIdle
    /\ RunIdle
    /\ CompileIdle
    /\ applied = NoCall
    /\ variables = EmptyMap
    /\ \E prog \in CPrograms :
          cinterp = [status |-> "running", program_lines |-> prog.main,
                     functions |-> prog.functions, current_line |-> 0,
                     in_call |-> FALSE, body |-> <<>>, idx |-> 0, call_line |-> 0,
                     executed |-> <<>>]

cinterp_frame == <<store_vars, run_vars, comp_vars, load_vars, boot_vars, save_vars, applied>>

CRunning == cinterp.status = "running"

\* a line is at hand: the next one of the for loop of handle_call, or the
\* one run_program stands on
CHasLine ==
    /\ CRunning
    /\ IF cinterp.in_call THEN cinterp.idx < Len(cinterp.body)
       ELSE cinterp.current_line < Len(cinterp.program_lines)

CILine ==
    IF cinterp.in_call THEN cinterp.body[cinterp.idx + 1]
    ELSE cinterp.program_lines[cinterp.current_line + 1]

CPos(res) ==
    [s |-> IF cinterp.in_call THEN "F" ELSE "main",
     i |-> IF cinterp.in_call THEN cinterp.idx ELSE cinterp.current_line,
     res |-> res]

\* execute_line has left current_line at pc: the for loop of handle_call
\* takes its next line, run_program adds one to current_line
CAdvance(pc, res) ==
    cinterp' = IF cinterp.in_call
               THEN [cinterp EXCEPT !.current_line = pc, !.idx = cinterp.idx + 1,
                                    !.executed = Append(cinterp.executed, CPos(res))]
               ELSE [cinterp EXCEPT !.current_line = pc + 1,
                                    !.executed = Append(cinterp.executed, CPos(res))]

\* DisplayText(SHELL) and EndIf
CExecPlain ==
    /\ CHasLine
    /\ CILine.k \in {"Display", "EndIf"}
    /\ CAdvance(cinterp.current_line, TRUE)
    /\ UNCHANGED <<variables, cinterp_frame>>

CExecSet ==
    /\ CHasLine
    /\ CILine.k = "Set"
    /\ variables' = Put(variables, CILine.a, CILine.b)
    /\ CAdvance(cinterp.current_line, TRUE)
    /\ UNCHANGED cinterp_frame

\* the If branch of execute_line: skip_if_block works on the global
\* program_lines and current_line
CExecIf ==
    /\ CHasLine
    /\ CILine.k = "If"
    /\ LET res == handle_if(CILine)
       IN  CAdvance(IF res THEN cinterp.current_line
                    ELSE skip_if_block(cinterp.program_lines, cinterp.current_line), res)
    /\ UNCHANGED <<variables, cinterp_frame>>

CExecElse ==
    /\ CHasLine
    /\ CILine.k = "Else"
    /\ CAdvance(skip_to_endif(cinterp.program_lines, cinterp.current_line), TRUE)
    /\ UNCHANGED <<variables, cinterp_frame>>

\* handle_call starts its for loop over the lines of the function
CExecCall ==
    /\ CHasLine
    /\ ~cinterp.in_call
    /\ CILine.k = "Call"
    /\ cinterp' = [cinterp EXCEPT !.in_call = TRUE, !.body = cinterp.functions[CILine.a],
                                  !.idx = 0, !.call_line = cinterp.current_line,
                                  !.executed = Append(cinterp.executed, CPos(TRUE))]
    /\ UNCHANGED <<variables, cinterp_frame>>

\* handle_call returns and run_program adds one to current_line
CCallReturn ==
    /\ CRunning
    /\ cinterp.in_call
    /\ cinterp.idx = Len(cinterp.body)
    /\ cinterp' = [cinterp EXCEPT !.in_call = FALSE,
                                  !.current_line = cinterp.current_line + 1]
    /\ UNCHANGED <<variables, cinterp_frame>>

\* the while loop of run_program ends
CFinish ==
    /\ CRunning
    /\ ~cinterp.in_call
    /\ cinterp.current_line >= Len(cinterp.program_lines)
    /\ cinterp' = [cinterp EXCEPT !.status = "done"]
    /\ UNCHANGED <<variables, cinterp_frame>>

NextCInterp ==
    \/ CExecPlain
    \/ CExecSet
    \/ CExecIf
    \/ CExecElse
    \/ CExecCall
    \/ CCallReturn
    \/ CFinish

SpecCInterp == InitCInterp /\ [][NextCInterp]_vars

\* the last line executed, when there is one
CLast == cinterp.executed[Len(cinterp.executed)]

\* C37: while the body of a called function runs, current_line is the line
\* of the CallFunction statement, and after an If of the body whose
\* condition is false the next line of the body to run is the one after the
\* Else or EndIf that closes the If in the body.
C37_CallKeepsCallerLine ==
    (cinterp.status = "running" /\ cinterp.in_call) =>
        /\ cinterp.current_line = cinterp.call_line
        /\ (/\ cinterp.idx > 0
            /\ CLast.s = "F"
            /\ cinterp.body[CLast.i + 1].k = "If"
            /\ ~CLast.res)
              => cinterp.idx = skip_if_block(cinterp.body, CLast.i) + 1

\* ------------------------------------------------------------------------
\* The layout of the compiled program: main, then the functions
\* ------------------------------------------------------------------------
FuncLabel(u) == Lbl("FUNC_", c_source.functions[u].name, 0)

\* the number of ops emitted before the first op of function u: those of
\* main and, for each function before u, those of its body and its RET
OpsBefore(u) == c_units[u] + (IF u = 1 THEN 0 ELSE 1)

\* the number of lines of the first u functions
RECURSIVE FuncLines(_)
FuncLines(u) == IF u = 0 THEN 0 ELSE FuncLines(u - 1) + Len(c_source.functions[u].lines)

\* global number (from 1) of line j (from 1) of function u
FuncLineNo(u, j) == Len(c_source.main) + FuncLines(u - 1) + j

\* C40: when compile_long_to_vm returns, the ops of main come first and the
\* functions follow in the order of the map: FUNC_F is the index of the
\* first op emitted for F, the ops of the body of F are followed by one RET,
\* after which the next function begins or the program ends, and no line of
\* a function body has its ops before the end of those of main.
C40_FunctionsFollowMain ==
    c_status = "returned" =>
        LET n == Len(c_source.functions)
        IN  /\ Len(c_units) = n + 1
            /\ \A j \in 1..Len(c_source.main) : c_marks[j] <= c_units[1]
            /\ \A u \in 1..n :
                  /\ FuncLabel(u) \in DOMAIN label_positions
                  /\ label_positions[FuncLabel(u)] = OpsBefore(u)
                  /\ c_units[u + 1] >= OpsBefore(u)
                  /\ c_units[u + 1] < Len(ops)
                  /\ ops[c_units[u + 1] + 1] = <<"RET">>
                  /\ IF u < n THEN OpsBefore(u + 1) = c_units[u + 1] + 1
                     ELSE Len(ops) = c_units[u + 1] + 1
                  /\ \A j \in 1..Len(c_source.functions[u].lines) :
                        /\ c_marks[FuncLineNo(u, j)] >= c_units[1]
                        /\ c_marks[FuncLineNo(u, j)] >= OpsBefore(u)
                        /\ c_marks[FuncLineNo(u, j)] <= c_units[u + 1]

\* two functions were compiled after a main stream that emitted ops, the
\* second one with a body that emits nothing
C40_Witness ==
    /\ c_status = "returned"
    /\ Len(c_source.functions) = 2
    /\ c_units[1] > 0
    /\ c_units[3] = label_positions[FuncLabel(2)]
    /\ c_units[2] > label_positions[FuncLabel(1)]

====
